---------------------------- MODULE Spec2Model ----------------------------
(***************************************************************************)
(* NEAR account identifiers (near-account-id): the validator, the          *)
(* compile-time validator, and the owned / borrowed identifier types.      *)
(*                                                                         *)
(* A string (&str) is a sequence of Unicode scalar values (code points,    *)
(* as integers: 97 is 'a').  str::len is the length of its UTF-8           *)
(* encoding, chars() walks the code points.  Option values are sequences   *)
(* of length 0 (None) or 1 (Some).                                         *)
(***************************************************************************)
EXTENDS Integers, Sequences, FiniteSets, TLC

\* validation.rs: the length limits of an account id (str::len, in bytes).
MIN_LEN == 2
MAX_LEN == 64

\* Bounds of the explored inputs: the longest enumerated tail, and how far
\* below MAX_LEN bytes the padding that is put in front of a tail starts.
MaxTail == 3
PadSlack == 3

\* The same for the inputs of the classification: the longest tail after a
\* padding of hex digits, and how far below 42 or 64 bytes a padding starts.
HexTail == 2
HexSlack == 4

\* The longest enumerated string of the relations between two identifiers.
RelLen == 3

\* How many of the random bytes of an implicit identifier vary freely.
ArbVaried == 1

\* How many sub-account labels the generator of named identifiers is followed
\* through.
ArbDepth == 2

\* The walk to the top starts from chains of up to WalkDepth '.'.
WalkDepth == 4

None == << >>
Some(x) == << x >>

----------------------------------------------------------------------------
(* Strings and their UTF-8 encoding                                        *)

\* char::len_utf8: the number of bytes of a code point's encoding.
CharLenUtf8(c) ==
    IF c < 128 THEN 1 ELSE IF c < 2048 THEN 2 ELSE IF c < 65536 THEN 3 ELSE 4

\* The UTF-8 encoding of one code point.
EncodeUtf8(c) ==
    IF c < 128 THEN << c >>
    ELSE IF c < 2048 THEN << 192 + (c \div 64), 128 + (c % 64) >>
    ELSE IF c < 65536 THEN
        << 224 + (c \div 4096), 128 + ((c \div 64) % 64), 128 + (c % 64) >>
    ELSE << 240 + (c \div 262144), 128 + ((c \div 4096) % 64),
            128 + ((c \div 64) % 64), 128 + (c % 64) >>

\* The bytes of the code points of s from 1-based position i on.
RECURSIVE BytesFrom(_, _)
BytesFrom(s, i) ==
    IF i > Len(s) THEN << >> ELSE EncodeUtf8(s[i]) \o BytesFrom(s, i + 1)

\* str::as_bytes: the bytes of a string.
as_bytes(s) == BytesFrom(s, 1)

\* The number of bytes of the code points of s from 1-based position i on.
RECURSIVE LenFrom(_, _)
LenFrom(s, i) ==
    IF i > Len(s) THEN 0 ELSE CharLenUtf8(s[i]) + LenFrom(s, i + 1)

\* str::len: the length of a string in bytes.
StrLen(s) == LenFrom(s, 1)

\* Mutant: every letter and digit of Unicode passes, as with
\* char::is_alphanumeric.
IsAlnum_Unicode(c) ==
    (c >= 97 /\ c <= 122) \/ (c >= 65 /\ c <= 90) \/ (c >= 48 /\ c <= 57)
        \/ c >= 128

\* Mutant: uppercase letters pass as well.
IsAlnum_AnyCase(c) ==
    (c >= 97 /\ c <= 122) \/ (c >= 65 /\ c <= 90) \/ (c >= 48 /\ c <= 57)

\* 'a'..='z' | '0'..='9'
IsAlnum(c) == (c >= 97 /\ c <= 122) \/ (c >= 48 /\ c <= 57)

\* Mutant: '_' left out of the separators.
IsSeparator_NoUnderscore(c) == c = 45 \/ c = 46

\* '-' | '_' | '.'
IsSeparator(c) == c = 45 \/ c = 95 \/ c = 46

----------------------------------------------------------------------------
(* validation.rs: validate                                                 *)

Ok == [kind |-> "Ok", char |-> None]
Err(k, ch) == [kind |-> k, char |-> ch]
IsOk(r) == r.kind = "Ok"

\* The for loop of validate from 1-based position i on, with the loop's
\* last_char_is_separator and this, and the check that follows the loop.
RECURSIVE ValidateScan(_, _, _, _)

\* Mutant: this is replaced only after the character class is matched, so
\* that InvalidChar carries the character before the offending one.
ValidateScan_StaleThis(s, i, last_char_is_separator, this) ==
    IF i > Len(s)
    THEN IF last_char_is_separator
         THEN Err("RedundantSeparator", this)
         ELSE Ok
    ELSE LET c == s[i]
             now == Some(<< i - 1, c >>)
         IN  IF ~IsAlnum(c) /\ ~IsSeparator(c)
             THEN Err("InvalidChar", this)
             ELSE IF IsSeparator(c) /\ last_char_is_separator
             THEN Err("RedundantSeparator", now)
             ELSE ValidateScan(s, i + 1, IsSeparator(c), now)

ValidateScan(s, i, last_char_is_separator, this) ==
    IF i > Len(s)
    THEN IF last_char_is_separator
         THEN Err("RedundantSeparator", this)
         ELSE Ok
    ELSE LET c == s[i]
             now == Some(<< i - 1, c >>)
         IN  IF ~IsAlnum(c) /\ ~IsSeparator(c)
             THEN Err("InvalidChar", now)
             ELSE IF IsSeparator(c) /\ last_char_is_separator
             THEN Err("RedundantSeparator", now)
             ELSE ValidateScan(s, i + 1, IsSeparator(c), now)

\* Mutant: last_char_is_separator seeded false.
validate_SeedNotSeparator(s) ==
    IF StrLen(s) < MIN_LEN THEN Err("TooShort", None)
    ELSE IF StrLen(s) > MAX_LEN THEN Err("TooLong", None)
    ELSE ValidateScan(s, 1, FALSE, None)

\* Mutant: the characters are scanned before the length is checked.
validate_ScanFirst(s) ==
    LET r == ValidateScan(s, 1, TRUE, None)
    IN  IF r.kind = "InvalidChar" \/ (r.kind = "RedundantSeparator" /\ s # << >>)
        THEN r
        ELSE IF StrLen(s) < MIN_LEN THEN Err("TooShort", None)
        ELSE IF StrLen(s) > MAX_LEN THEN Err("TooLong", None)
        ELSE r

\* Mutant: the check after the loop reports no character.
validate_TrailingNoChar(s) ==
    IF StrLen(s) < MIN_LEN THEN Err("TooShort", None)
    ELSE IF StrLen(s) > MAX_LEN THEN Err("TooLong", None)
    ELSE LET r == ValidateScan(s, 1, TRUE, None)
         IN  IF r.kind = "RedundantSeparator" /\ ~IsSeparator(s[Len(s) - 1])
                /\ r.char = Some(<< Len(s) - 1, s[Len(s)] >>)
             THEN Err("RedundantSeparator", None)
             ELSE r

validate(s) ==
    IF StrLen(s) < MIN_LEN THEN Err("TooShort", None)
    ELSE IF StrLen(s) > MAX_LEN THEN Err("TooLong", None)
    ELSE ValidateScan(s, 1, TRUE, None)

----------------------------------------------------------------------------
(* validation.rs: validate_const; the result is "ok" or the panic message  *)

RECURSIVE validate_format_const(_, _, _)
validate_format_const(id, idx, current_char_is_separator) ==
    IF idx >= Len(id)
    THEN IF current_char_is_separator
         THEN "NEAR Account ID cannot end with char separator (-, _, .)"
         ELSE "ok"
    ELSE LET b == id[idx + 1]
         IN  IF (b >= 97 /\ b <= 122) \/ (b >= 48 /\ b <= 57)
             THEN validate_format_const(id, idx + 1, FALSE)
             ELSE IF b = 45 \/ b = 95 \/ b = 46
             THEN IF current_char_is_separator
                  THEN "NEAR Account ID cannot contain redundant separator (-, _, .)"
                  ELSE IF idx = 0
                  THEN "NEAR Account ID cannot start with char separator (-, _, .)"
                  ELSE validate_format_const(id, idx + 1, TRUE)
             ELSE "NEAR Account ID cannot contain invalid chars"

\* Mutant: the upper length check is off by one.
validate_const_OffByOne(s) ==
    IF StrLen(s) < MIN_LEN THEN "NEAR Account ID is too short"
    ELSE IF StrLen(s) >= MAX_LEN THEN "NEAR Account ID is too long"
    ELSE validate_format_const(as_bytes(s), 0, FALSE)

validate_const(s) ==
    IF StrLen(s) < MIN_LEN THEN "NEAR Account ID is too short"
    ELSE IF StrLen(s) > MAX_LEN THEN "NEAR Account ID is too long"
    ELSE validate_format_const(as_bytes(s), 0, FALSE)

----------------------------------------------------------------------------
(* account_id.rs, account_id_ref.rs, into_account_id.rs: the constructors  *)
(* and conversions.  An identifier (owned or view) is its text.            *)

\* Result<T, ParseAccountError>
RetOk(v) == [ok |-> TRUE, value |-> Some(v), err |-> None]
RetErr(e) == [ok |-> FALSE, value |-> None, err |-> Some(e)]

\* The `validate(..)?; Ok(..)` shape shared by the fallible constructors.
Validated(s) ==
    LET r == validate(s) IN IF IsOk(r) THEN RetOk(s) ELSE RetErr(r)

\* Mutant: the text is lowercased before it is validated and stored.
from_str_Lowercased(account_id) ==
    Validated([i \in 1..Len(account_id) |->
                  IF account_id[i] >= 65 /\ account_id[i] <= 90
                  THEN account_id[i] + 32 ELSE account_id[i]])

\* impl FromStr for AccountId
from_str(account_id) == Validated(account_id)

\* impl TryFrom<Box<str>> for AccountId
try_from_box_str(account_id) == Validated(account_id)

\* Mutant: the String is boxed without being validated.
try_from_string_Unchecked(account_id) == RetOk(account_id)

\* impl TryFrom<String> for AccountId
try_from_string(account_id) == Validated(account_id)

\* AccountIdRef::new
AccountIdRef_new(id) == Validated(id)

\* impl TryFrom<&str> for &AccountIdRef
try_from_str_ref(value) == AccountIdRef_new(value)

\* impl TryIntoAccountId for &str: self.parse()
try_into_account_id_str(s) == from_str(s)

\* impl TryIntoAccountId for String: AccountId::try_from(self)
try_into_account_id_string(s) == try_from_string(s)

\* AccountIdRef::new_unvalidated: whether its debug_assert! fails, in a
\* build with debug assertions (the default features: not internal_unstable).
new_unvalidated_panics(debug, id) == debug /\ ~IsOk(validate(id))

\* str::split_once('.'): the 1-based position of the first '.', or 0.
RECURSIVE FindDot(_, _)
FindDot(s, i) ==
    IF i > Len(s) THEN 0 ELSE IF s[i] = 46 THEN i ELSE FindDot(s, i + 1)

\* Mutant: the text is split at its last '.', as rsplit_once does.
get_parent_account_id_LastDot(s) ==
    LET dots == {i \in 1..Len(s) : s[i] = 46}
    IN  IF dots = {} THEN None
        ELSE LET d == CHOOSE i \in dots : \A j \in dots : j <= i
             IN  Some(SubSeq(s, d + 1, Len(s)))

\* AccountIdRef::get_parent_account_id: the text of the returned view.
get_parent_account_id(s) ==
    LET d == FindDot(s, 1)
    IN  IF d = 0 THEN None ELSE Some(SubSeq(s, d + 1, Len(s)))

\* impl ToOwned for AccountIdRef: AccountId(self.0.into())
to_owned(v) == v

\* #[derive(Clone)] for AccountId
clone(a) == a

\* Cow<AccountIdRef>
CowOwned(a) == [tag |-> "Owned", text |-> a]
CowBorrowed(v) == [tag |-> "Borrowed", text |-> v]

\* Cow::into_owned
into_owned(c) == IF c.tag = "Owned" THEN c.text ELSE to_owned(c.text)

\* AccountIdRef::as_str: &self.0
as_str(v) == v

\* The code points that the UTF-8 bytes b encode from 1-based position i on.
RECURSIVE DecodeFrom(_, _)
DecodeFrom(b, i) ==
    IF i > Len(b) THEN << >>
    ELSE IF b[i] < 128 THEN << b[i] >> \o DecodeFrom(b, i + 1)
    ELSE IF b[i] < 224
    THEN << (b[i] - 192) * 64 + (b[i + 1] - 128) >> \o DecodeFrom(b, i + 2)
    ELSE IF b[i] < 240
    THEN << (b[i] - 224) * 4096 + (b[i + 1] - 128) * 64 + (b[i + 2] - 128) >>
         \o DecodeFrom(b, i + 3)
    ELSE << (b[i] - 240) * 262144 + (b[i + 1] - 128) * 4096
            + (b[i + 2] - 128) * 64 + (b[i + 3] - 128) >>
         \o DecodeFrom(b, i + 4)

\* impl Display for AccountId, through ToString: the bytes of the text are
\* written to a new String.
to_string(a) == DecodeFrom(as_bytes(a), 1)

\* impl From<AccountId> for String: account_id.0.into_string()
string_from(a) == a

\* The byte lengths that is_eth_implicit and is_near_implicit ask for.
ETH_IMPLICIT_LEN == 42
NEAR_IMPLICIT_LEN == 64

\* matches!(b, b'a'..=b'f' | b'0'..=b'9')
IsHexByte(b) == (b >= 97 /\ b <= 102) \/ (b >= 48 /\ b <= 57)

\* str::starts_with(prefix), on the bytes of both
starts_with(s, prefix) ==
    LET b == as_bytes(s)
        p == as_bytes(prefix)
    IN  Len(b) >= Len(p) /\ SubSeq(b, 1, Len(p)) = p

\* Mutant: the "0x" prefix is not asked for.
is_eth_implicit_AnyPrefix(account_id) ==
    LET b == as_bytes(account_id)
    IN  /\ Len(b) = ETH_IMPLICIT_LEN
        /\ \A i \in 3..Len(b) : IsHexByte(b[i])

\* validation::is_eth_implicit
is_eth_implicit(account_id) ==
    LET b == as_bytes(account_id)
    IN  /\ Len(b) = ETH_IMPLICIT_LEN
        /\ starts_with(account_id, << 48, 120 >>)
        /\ \A i \in 3..Len(b) : IsHexByte(b[i])

\* validation::is_near_implicit
is_near_implicit(account_id) ==
    LET b == as_bytes(account_id)
    IN  /\ Len(b) = NEAR_IMPLICIT_LEN
        /\ \A i \in 1..Len(b) : IsHexByte(b[i])

\* AccountIdRef::get_account_type
get_account_type(s) ==
    IF is_eth_implicit(as_str(s)) THEN "EthImplicitAccount"
    ELSE IF is_near_implicit(as_str(s)) THEN "NearImplicitAccount"
    ELSE "NamedAccount"

\* Mutant: EthImplicitAccount is not counted as implicit.
is_implicit_NearOnly(ty) == ty = "NearImplicitAccount"

\* AccountType::is_implicit
is_implicit(ty) ==
    CASE ty = "NearImplicitAccount" -> TRUE
      [] ty = "EthImplicitAccount" -> TRUE
      [] ty = "NamedAccount" -> FALSE

\* str == str: the bytes of both are the same
str_eq(a, b) == as_bytes(a) = as_bytes(b)

\* str::contains(c) for a character c
contains(s, c) == \E i \in 1..Len(s) : s[i] = c

\* AccountIdRef::is_system: self == "system"
is_system(s) == str_eq(s, << 115, 121, 115, 116, 101, 109 >>)

\* str::strip_suffix(suffix): the rest of s in front of suffix, if s ends
\* with it.
strip_suffix(s, suffix) ==
    IF /\ Len(s) >= Len(suffix)
       /\ SubSeq(s, Len(s) - Len(suffix) + 1, Len(s)) = suffix
    THEN Some(SubSeq(s, 1, Len(s) - Len(suffix)))
    ELSE None

\* Mutant: the '.' between the label and the parent is not looked for.
is_sub_account_of_NoSeparator(s, parent) ==
    LET a == strip_suffix(s, as_str(parent))
    IN  IF a = None THEN FALSE ELSE ~contains(a[1], 46)

\* Mutant: any descendant passes, not only a direct child.
is_sub_account_of_AnyDepth(s, parent) ==
    LET a == strip_suffix(s, as_str(parent))
    IN  IF a = None THEN FALSE ELSE strip_suffix(a[1], << 46 >>) # None

\* AccountIdRef::is_sub_account_of
is_sub_account_of(s, parent) ==
    LET a == strip_suffix(s, as_str(parent))
    IN  IF a = None THEN FALSE
        ELSE LET b == strip_suffix(a[1], << 46 >>)
             IN  IF b = None THEN FALSE ELSE ~contains(b[1], 46)

\* The comparison of two byte strings from 1-based position i on, as
\* <[u8] as Ord>::cmp makes it: the first differing byte decides, then the
\* lengths.
RECURSIVE CmpFrom(_, _, _)
CmpFrom(x, y, i) ==
    IF i > Len(x) /\ i > Len(y) THEN "Equal"
    ELSE IF i > Len(x) THEN "Less"
    ELSE IF i > Len(y) THEN "Greater"
    ELSE IF x[i] < y[i] THEN "Less"
    ELSE IF x[i] > y[i] THEN "Greater"
    ELSE CmpFrom(x, y, i + 1)

\* Mutant: the shorter string sorts first.
str_partial_cmp_LengthFirst(a, b) ==
    IF StrLen(a) < StrLen(b) THEN Some("Less")
    ELSE IF StrLen(a) > StrLen(b) THEN Some("Greater")
    ELSE Some(CmpFrom(as_bytes(a), as_bytes(b), 1))

\* str::partial_cmp
str_partial_cmp(a, b) == Some(CmpFrom(as_bytes(a), as_bytes(b), 1))

\* The operand types of the comparisons.
IdKinds == {"AccountId", "AccountIdRef", "&AccountIdRef"}
StrKinds == {"String", "str", "&str"}

\* The pairs of operand types that have a PartialEq and a PartialOrd impl:
\* the derived ones, and the mixed ones in both orders.
CmpImpls ==
    LET oneway ==
            ({"AccountId"} \X {"AccountIdRef", "&AccountIdRef"})
            \cup ({"AccountId", "AccountIdRef"} \X StrKinds)
            \cup ({"&AccountIdRef"} \X {"String", "str"})
    IN  {<< "AccountId", "AccountId" >>, << "AccountIdRef", "AccountIdRef" >>}
        \cup oneway \cup {<< k[2], k[1] >> : k \in oneway}

\* The str that an operand of type kind with text v is compared as:
\* as_str() of an AccountId, the field of an AccountIdRef, the string itself.
CmpText(kind, v) == IF kind = "AccountId" THEN as_str(v) ELSE v

\* a == b for the operand types lk and rk
eq(lk, a, rk, b) == str_eq(CmpText(lk, a), CmpText(rk, b))

\* a.partial_cmp(b) for the operand types lk and rk
partial_cmp(lk, a, rk, b) == str_partial_cmp(CmpText(lk, a), CmpText(rk, b))

\* Mutant: the system account is not set apart.
is_top_level_SystemToo(s) == ~contains(s, 46)

\* AccountIdRef::is_top_level
is_top_level(s) == ~is_system(s) /\ ~contains(s, 46)

\* The digits of hex::encode: "0123456789abcdef".
HEX_CHARS_LOWER ==
    << 48, 49, 50, 51, 52, 53, 54, 55, 56, 57, 97, 98, 99, 100, 101, 102 >>

\* Mutant: the digits of hex::encode_upper.
hex_encode_Upper(bytes) ==
    LET upper == << 48, 49, 50, 51, 52, 53, 54, 55, 56, 57,
                    65, 66, 67, 68, 69, 70 >>
    IN  [i \in 1..(2 * Len(bytes)) |->
            IF i % 2 = 1 THEN upper[(bytes[(i + 1) \div 2] \div 16) + 1]
            ELSE upper[(bytes[i \div 2] % 16) + 1]]

\* hex::encode: two digits for every byte, the high half first
hex_encode(bytes) ==
    [i \in 1..(2 * Len(bytes)) |->
        IF i % 2 = 1 THEN HEX_CHARS_LOWER[(bytes[(i + 1) \div 2] \div 16) + 1]
        ELSE HEX_CHARS_LOWER[(bytes[i \div 2] % 16) + 1]]

\* ArbitraryNamedAccountId::char: b"0123456789abcdefghijklmnopqrstuvwxyz"
EDGE_ALPHABET ==
    << 48, 49, 50, 51, 52, 53, 54, 55, 56, 57, 97, 98, 99,
       100, 101, 102, 103, 104, 105, 106, 107, 108, 109, 110, 111, 112,
       113, 114, 115, 116, 117, 118, 119, 120, 121, 122 >>

\* ArbitraryNamedAccountId::char: the same and b"-_"
NON_EDGE_ALPHABET == EDGE_ALPHABET \o << 45, 95 >>

\* Unstructured::int_in_range(lo..=hi) that reads the byte raw: nothing is
\* read for a range of one value, and data that has run out reads as 0.
int_in_range(raw, lo, hi) ==
    IF lo = hi THEN lo ELSE lo + (raw % (hi - lo + 1))

\* Unstructured::choose(choices) that reads the byte raw
choose(raw, choices) == choices[int_in_range(raw, 0, Len(choices) - 1) + 1]

\* ArbitraryNamedAccountId::char
char(raw, on_edge) ==
    choose(raw, IF on_edge THEN EDGE_ALPHABET ELSE NON_EDGE_ALPHABET)

\* The byte that the j-th read of the bytes raws gives: 0 when they ran out.
RawAt(raws, j) == IF j <= Len(raws) THEN raws[j] ELSE 0

\* Mutant: every character of the middle comes from the whole alphabet.
RECURSIVE MidFrom_NeverEdge(_, _, _, _)
MidFrom_NeverEdge(raws, n, j, last_not_edge) ==
    IF j > n THEN << >>
    ELSE << char(RawAt(raws, j), FALSE) >>
         \o MidFrom_NeverEdge(raws, n, j + 1, FALSE)

\* The characters j..n of `mid`: iter::repeat_with of the closure that keeps
\* last_not_edge, taken n times and collected.
RECURSIVE MidFrom(_, _, _, _)
MidFrom(raws, n, j, last_not_edge) ==
    IF j > n THEN << >>
    ELSE LET c == char(RawAt(raws, j), last_not_edge)
         IN  << c >> \o MidFrom(raws, n, j + 1, c \in {45, 95})

\* Err(Error::IncorrectFormat) of the arbitrary crate
IncorrectFormat == RetErr("IncorrectFormat")

\* ArbitraryNamedAccountId::arbitrary_subaccount(u, parent), for the bytes
\* d.len, d.first, d.last and d.mid that u gives to the reads of len, first,
\* last and mid
arbitrary_subaccount(parent, d) ==
    IF parent # None /\ StrLen(parent[1]) >= MAX_LEN - 1
    THEN IncorrectFormat
    ELSE LET picked == IF parent = None
                       THEN int_in_range(d.len, 2, MAX_LEN)
                       ELSE int_in_range(d.len, 1,
                                         MAX_LEN - StrLen(parent[1]) - 1)
             len == IF picked > 1 THEN picked ELSE 1
             first == char(d.first, TRUE)
             subaccount ==
                 IF len = 1 THEN << first >>
                 ELSE LET last == char(d.last, TRUE)
                          mid == MidFrom(d.mid, len - 2, 1, FALSE)
                      IN  << first >> \o mid \o << last >>
             text == IF parent # None
                     THEN subaccount \o << 46 >> \o parent[1]
                     ELSE subaccount
             r == from_str(text)
         IN  IF r.ok THEN r ELSE IncorrectFormat

\* ArbitraryNearImplicitAccountId::arbitrary_as: the text that is parsed,
\* for the 32 random bytes pk
near_implicit_text(pk) == hex_encode(pk)

\* ArbitraryEthImplicitAccountId::arbitrary_as: format!("0x{}", ..)
eth_implicit_text(hash) == << 48, 120 >> \o hex_encode(hash)

\* ArbitraryNearDeterministicAccountId::arbitrary_as: format!("0s{}", ..)
near_deterministic_text(hash) == << 48, 115 >> \o hex_encode(hash)

----------------------------------------------------------------------------
(* account_id_ref.rs: Arbitrary for &AccountIdRef                          *)

\* str::is_char_boundary: byte offset idx is where a character of s starts,
\* or the end of s.
is_char_boundary(s, idx) ==
    \E k \in 0..Len(s) : StrLen(SubSeq(s, 1, k)) = idx

\* &s[..idx] for a character boundary idx.
slice_to(s, idx) ==
    SubSeq(s, 1, CHOOSE k \in 0..Len(s) : StrLen(SubSeq(s, 1, k)) = idx)

\* Arbitrary for &AccountIdRef: the loop of arbitrary on the string s that
\* u.arbitrary::<&str>() gave.  ret is what the call returns, panic the
\* message when the slice panics instead.
RECURSIVE arbitrary_ref(_)

\* Mutant: an invalid string is not cut, as in arbitrary_take_rest.
arbitrary_ref_NoTruncate(s) ==
    [ret |-> Some(IF AccountIdRef_new(s).ok THEN RetOk(s) ELSE IncorrectFormat),
     panic |-> None]

arbitrary_ref(s) ==
    LET r == AccountIdRef_new(s)
    IN  IF r.ok
        THEN [ret |-> Some(RetOk(r.value[1])), panic |-> None]
        ELSE IF r.err[1].char # None
        THEN LET idx == r.err[1].char[1][1]
             IN  IF is_char_boundary(s, idx)
                 THEN arbitrary_ref(slice_to(s, idx))
                 ELSE [ret |-> None,
                       panic |-> Some("byte index is not a char boundary")]
        ELSE [ret |-> Some(IncorrectFormat), panic |-> None]

\* Arbitrary for &AccountIdRef: arbitrary_take_rest on the string s.
arbitrary_take_rest(s) ==
    IF AccountIdRef_new(s).ok THEN RetOk(s) ELSE IncorrectFormat

----------------------------------------------------------------------------
(* The explored input strings                                              *)

\* a - _ . A and the two-byte U+0192
Alphabet == {97, 45, 95, 46, 65, 402}
PadChars == {97, 402}

RECURSIVE Strs(_)
Strs(n) ==
    IF n = 0 THEN {<< >>}
    ELSE {Append(s, c) : s \in Strs(n - 1), c \in Alphabet}

Tails == UNION {Strs(n) : n \in 0..MaxTail}

RECURSIVE Pad(_, _)
Pad(c, n) == IF n = 0 THEN << >> ELSE << c >> \o Pad(c, n - 1)

\* No padding, or a padding of MAX_LEN - PadSlack .. MAX_LEN bytes.
PadLens(c) ==
    {0} \cup {n \in 1..MAX_LEN :
                  n * CharLenUtf8(c) >= MAX_LEN - PadSlack
                  /\ n * CharLenUtf8(c) <= MAX_LEN}

\* Strings of the crate's documentation and tests.
Corpus ==
    { << 65, 95, 95, 402, 402, 108, 117, 101, 110, 116, 46 >>,
      << 97, 95, 95, 402, 402, 108, 117, 101, 110, 116, 46 >>,
      << 97, 402, 402, 108, 117, 101, 110, 116, 46 >>,
      << 97, 102, 102, 108, 117, 101, 110, 116, 46 >>,
      << 45, 75, 97, 114, 108, 85, 114, 98, 97, 110, 46, 110, 101, 97, 114 >>,
      << 97, 108, 105, 99, 101, 46, 110, 101, 97, 114 >>,
      << 97, 112, 112, 46, 97, 108, 105, 99, 101, 46, 110, 101, 97, 114 >>,
      << 49, 95, 52, 109, 95, 110, 48, 116, 45, 97, 108, 49, 99, 51, 46,
         110, 101, 97, 114 >>,
      << 48, 95, 95, 48 >>,
      << 48, 95, 45, 95, 48 >>,
      << 1085, 1077, 1072, 1088 >>,
      << 64, 110, 101, 97, 114 >>,
      << 115, 121, 115, 116, 101, 109 >> }

\* The inputs of the validators: every tail, bare and behind every padding.
ValidatorInputs ==
    Corpus \cup
    UNION {{Pad(c, n) \o t : n \in PadLens(c), t \in Tails} : c \in PadChars}

\* The inputs of the constructors and conversions: every tail, and the
\* paddings alone or with one more character.
Inputs ==
    Corpus \cup Tails \cup
    UNION {{Pad(c, n) \o t : n \in PadLens(c), t \in Strs(0) \cup Strs(1)} :
              c \in PadChars}

\* Identifiers of the documentation and tests of the relations between
\* identifiers.
NEAR == << 110, 101, 97, 114 >>
ALICE_NEAR == << 97, 108, 105, 99, 101, 46, 110, 101, 97, 114 >>
APP_ALICE_NEAR ==
    << 97, 112, 112, 46, 97, 108, 105, 99, 101, 46, 110, 101, 97, 114 >>
TEST == << 116, 101, 115, 116 >>
A_ETEST == << 97, 46, 101, 116, 101, 115, 116 >>

\* These, and a non-ASCII string.
RelCorpus == {NEAR, ALICE_NEAR, APP_ALICE_NEAR, TEST, A_ETEST, << 402 >>}

RECURSIVE RelStrs(_)
RelStrs(n) ==
    IF n = 0 THEN {<< >>}
    ELSE {Append(s, c) : s \in RelStrs(n - 1), c \in {97, 46}}

\* The strings of the relations: the corpus and every string of 'a' and '.'
\* of at most RelLen characters.
RelInputs == RelCorpus \cup UNION {RelStrs(n) : n \in 0..RelLen}

\* Strings of the tests of the implicit account kinds.
ImplicitCorpus ==
    { << 48, 49, 50, 51, 52, 53, 54, 55, 56, 57, 97, 98, 99, 100, 101,
         102, 48, 49, 50, 51, 52, 53, 54, 55, 56, 57, 97, 98, 99, 100,
         101, 102, 48, 49, 50, 51, 52, 53, 54, 55, 56, 57, 97, 98, 99,
         100, 101, 102, 48, 49, 50, 51, 52, 53, 54, 55, 56, 57, 97, 98,
         99, 100, 101, 102 >>,
      << 48, 120, 48, 49, 50, 51, 52, 53, 54, 55, 56, 57, 97, 98, 99, 100,
         101, 102, 48, 49, 50, 51, 52, 53, 54, 55, 56, 57, 97, 98, 99,
         100, 101, 102, 48, 49, 50, 51, 52, 53, 54, 55 >>,
      << 48, 52, 98, 55, 57, 52, 102, 53, 101, 97, 48, 98, 97, 51, 57, 52,
         57, 52, 99, 101, 56, 51, 57, 54, 49, 51, 102, 102, 102, 98, 97,
         55, 52, 50, 55, 57, 53, 55, 57, 50, 54, 56 >>,
      << 48, 120, 48, 49, 50, 45, 52, 53, 54, 55, 56, 57, 97, 98, 99, 100,
         101, 102, 48, 49, 50, 51, 52, 53, 54, 55, 56, 57, 97, 98, 99,
         100, 101, 102, 48, 49, 50, 51, 52, 53, 54, 55 >> }

\* The characters after a padding of hex digits: 'f', 'g', '.', 'F'.
HexAlphabet == {102, 103, 46, 70}

RECURSIVE HexStrs(_)
HexStrs(n) ==
    IF n = 0 THEN {<< >>}
    ELSE {Append(s, c) : s \in HexStrs(n - 1), c \in HexAlphabet}

HexTails == UNION {HexStrs(n) : n \in 0..HexTail}

\* Nothing, "0x" or "0y" in front.
HexPrefixes == {<< >>, << 48, 120 >>, << 48, 121 >>}

\* Paddings of 'a' or of '9' that end at most HexSlack bytes before either
\* length.
HexPadLens ==
    {n \in 1..MAX_LEN :
        \/ n >= ETH_IMPLICIT_LEN - HexSlack /\ n <= ETH_IMPLICIT_LEN
        \/ n >= NEAR_IMPLICIT_LEN - HexSlack /\ n <= NEAR_IMPLICIT_LEN}

\* The inputs of the classification: strings around both lengths.
TypeInputs ==
    Corpus \cup ImplicitCorpus \cup
    {p \o Pad(c, n) \o t :
        p \in HexPrefixes, c \in {97, 57}, n \in HexPadLens, t \in HexTails}

\* The random bytes of the generators of implicit identifiers: 0x00, 0x9a,
\* 0xaf, 0xff.
ByteSamples == {0, 154, 175, 255}

RECURSIVE ByteStrs(_)
ByteStrs(n) ==
    IF n = 0 THEN {<< >>}
    ELSE {Append(s, b) : s \in ByteStrs(n - 1), b \in ByteSamples}

\* Arrays of n random bytes: one byte repeated, and ArbVaried bytes at the
\* end of any value.
ByteArrays(n) ==
    {Pad(f, n - ArbVaried) \o t : f \in ByteSamples, t \in ByteStrs(ArbVaried)}

\* The bytes read for a length in lo..=hi: those that give the shortest and
\* the three longest lengths.
LenRaws(lo, hi) ==
    {r \in {0, hi - lo - 2, hi - lo - 1, hi - lo} : r >= 0 /\ r <= 255}

\* The bytes read for the characters in the middle: none (all read as 0),
\* or those of '-' and of '_', of which the second is read on an edge.
MidRaws == {<< >>, << 36, 37 >>}

\* The bytes of a call of arbitrary_subaccount with a length in lo..=hi:
\* 'a', or a byte past the end of the edge alphabet, first, and 'z' last.
Draws(lo, hi) ==
    [len : LenRaws(lo, hi), first : {10, 36}, last : {35}, mid : MidRaws]

\* The bytes that spell "system".
SystemDraw == [len |-> 4, first |-> 28, last |-> 22, mid |-> << 34, 28, 29, 14 >>]

----------------------------------------------------------------------------
(* The program: one input string, and the values a caller holds            *)

VARIABLES
    input,             \* the plain string handed to the crate
    debug_assertions,  \* whether the build has debug assertions on
    verdict,           \* Option: what validate returned for input
    result,            \* Option: the last fallible conversion, [of, ret]
    acc,               \* Option: the text of the owned AccountId held
    view,              \* Option: the text of the &AccountIdRef held
    cow,               \* Option: the Cow<AccountIdRef> held
    panic,             \* Option: the message of the panic that ended the run
    other,             \* a second plain string, the other operand
    pview,             \* Option: the text of the &AccountIdRef made of other
    out                \* Option: what the last query returned, [op, val]

vars == << input, debug_assertions, verdict, result, acc, view, cow, panic,
           other, pview, out >>

\* What the operations on the first identifier leave alone.
rest == << other, pview, out >>

Init ==
    /\ input \in Inputs
    /\ debug_assertions \in BOOLEAN
    /\ verdict = None
    /\ result = None
    /\ acc = None
    /\ view = None
    /\ cow = None
    /\ panic = None
    /\ other = << >>
    /\ pview = None
    /\ out = None

Running == panic = None

\* Mutant: the first character is taken with unwrap() before the length is
\* looked at, which panics on the empty string.
Validate_UnwrapFirst ==
    /\ Running
    /\ IF input = << >>
       THEN verdict' = verdict
            /\ panic' = Some("called Option::unwrap() on a None value")
       ELSE verdict' = Some(validate(input)) /\ panic' = panic
    /\ UNCHANGED rest
    /\ UNCHANGED << input, debug_assertions, result, acc, view, cow >>

\* AccountId::validate(input)
Validate ==
    /\ Running
    /\ verdict' = Some(validate(input))
    /\ UNCHANGED rest
    /\ UNCHANGED << input, debug_assertions, result, acc, view, cow, panic >>

\* A call that was given a plain string ("str") or an identifier ("id").
Call(of, r) == [of |-> of, ret |-> r]

\* A fallible constructor of an owned AccountId returned r.
OwnedFrom(of, r) ==
    /\ Running
    /\ result' = Some(Call(of, r))
    /\ acc' = IF r.ok THEN r.value ELSE acc
    /\ UNCHANGED rest
    /\ UNCHANGED << input, debug_assertions, verdict, view, cow, panic >>

\* A fallible constructor of a view returned r.
ViewFrom(of, r) ==
    /\ Running
    /\ result' = Some(Call(of, r))
    /\ view' = IF r.ok THEN r.value ELSE view
    /\ UNCHANGED rest
    /\ UNCHANGED << input, debug_assertions, verdict, acc, cow, panic >>

\* input.parse::<AccountId>()
FromStr == OwnedFrom("str", from_str(input))

\* AccountId::try_from(Box<str>)
TryFromBoxStr == OwnedFrom("str", try_from_box_str(input))

\* AccountId::try_from(String)
TryFromString == OwnedFrom("str", try_from_string(input))

\* (&str).try_into_account_id()
TryIntoAccountIdStr == OwnedFrom("str", try_into_account_id_str(input))

\* String.try_into_account_id()
TryIntoAccountIdString == OwnedFrom("str", try_into_account_id_string(input))

\* AccountIdRef::new(input)
RefNew == ViewFrom("str", AccountIdRef_new(input))

\* <&AccountIdRef>::try_from(input)
RefTryFrom == ViewFrom("str", try_from_str_ref(input))

\* AccountIdRef::new_or_panic(input): validate_const, then the cast.
NewOrPanic ==
    /\ Running
    /\ LET r == validate_const(input)
       IN  IF r = "ok"
           THEN view' = Some(input) /\ panic' = panic
           ELSE view' = view /\ panic' = Some(r)
    /\ UNCHANGED rest
    /\ UNCHANGED << input, debug_assertions, verdict, result, acc, cow >>

\* The step of a caller that goes through new_unvalidated(id) and, when its
\* debug assertion holds or is compiled out, holds the view v afterwards.
ThroughNewUnvalidated(id, v) ==
    IF new_unvalidated_panics(debug_assertions, id)
    THEN view' = view /\ panic' = Some("assertion failed: validate(id).is_ok()")
    ELSE view' = v /\ panic' = panic

\* impl Deref for AccountId
Deref ==
    /\ Running
    /\ acc # None
    /\ ThroughNewUnvalidated(acc[1], acc)
    /\ UNCHANGED rest
    /\ UNCHANGED << input, debug_assertions, verdict, result, acc, cow >>

\* impl Borrow<AccountIdRef> for AccountId
Borrow ==
    /\ Running
    /\ acc # None
    /\ ThroughNewUnvalidated(acc[1], acc)
    /\ UNCHANGED rest
    /\ UNCHANGED << input, debug_assertions, verdict, result, acc, cow >>

\* view = view.get_parent_account_id()
GetParent ==
    /\ Running
    /\ view # None
    /\ LET p == get_parent_account_id(view[1])
       IN  IF p = None
           THEN view' = None /\ panic' = panic
           ELSE ThroughNewUnvalidated(p[1], p)
    /\ UNCHANGED rest
    /\ UNCHANGED << input, debug_assertions, verdict, result, acc, cow >>

\* view.to_owned()
ToOwned ==
    /\ Running
    /\ view # None
    /\ acc' = Some(to_owned(view[1]))
    /\ UNCHANGED rest
    /\ UNCHANGED << input, debug_assertions, verdict, result, view, cow, panic >>

\* AccountId::from(&AccountIdRef): id.to_owned()
FromRef ==
    /\ Running
    /\ view # None
    /\ acc' = Some(to_owned(view[1]))
    /\ UNCHANGED rest
    /\ UNCHANGED << input, debug_assertions, verdict, result, view, cow, panic >>

\* acc.clone(), the clone kept in place of the original
Clone ==
    /\ Running
    /\ acc # None
    /\ acc' = Some(clone(acc[1]))
    /\ UNCHANGED rest
    /\ UNCHANGED << input, debug_assertions, verdict, result, view, cow, panic >>

\* Cow::from(AccountId): Cow::Owned(value), the AccountId moved in
CowFromAccountId ==
    /\ Running
    /\ acc # None
    /\ cow' = Some(CowOwned(acc[1]))
    /\ acc' = None
    /\ UNCHANGED rest
    /\ UNCHANGED << input, debug_assertions, verdict, result, view, panic >>

\* Cow::from(&AccountId): Cow::Borrowed(value), value dereferenced
CowFromAccountIdRef ==
    /\ Running
    /\ acc # None
    /\ IF new_unvalidated_panics(debug_assertions, acc[1])
       THEN cow' = cow /\ panic' = Some("assertion failed: validate(id).is_ok()")
       ELSE cow' = Some(CowBorrowed(acc[1])) /\ panic' = panic
    /\ UNCHANGED rest
    /\ UNCHANGED << input, debug_assertions, verdict, result, acc, view >>

\* Cow::from(&AccountIdRef): Cow::Borrowed(value)
CowFromRef ==
    /\ Running
    /\ view # None
    /\ cow' = Some(CowBorrowed(view[1]))
    /\ UNCHANGED rest
    /\ UNCHANGED << input, debug_assertions, verdict, result, acc, view, panic >>

\* AccountId::from(Cow<AccountIdRef>): value.into_owned()
FromCow ==
    /\ Running
    /\ cow # None
    /\ acc' = Some(into_owned(cow[1]))
    /\ cow' = None
    /\ UNCHANGED rest
    /\ UNCHANGED << input, debug_assertions, verdict, result, view, panic >>

\* AccountId.try_into_account_id(): Ok(self)
TryIntoAccountIdOwned ==
    /\ acc # None
    /\ OwnedFrom("id", RetOk(acc[1]))

\* (&AccountId).try_into_account_id(): Ok(self.to_owned()), a clone
TryIntoAccountIdBorrowed ==
    /\ acc # None
    /\ OwnedFrom("id", RetOk(clone(acc[1])))

\* (&AccountIdRef).try_into_account_id(): Ok(self.to_owned())
TryIntoAccountIdRef ==
    /\ view # None
    /\ OwnedFrom("id", RetOk(to_owned(view[1])))

\* Cow<AccountIdRef>.try_into_account_id(): Ok(self.into_owned())
TryIntoAccountIdCow ==
    /\ cow # None
    /\ result' = Some(Call("id", RetOk(into_owned(cow[1]))))
    /\ acc' = Some(into_owned(cow[1]))
    /\ cow' = None
    /\ Running
    /\ UNCHANGED rest
    /\ UNCHANGED << input, debug_assertions, verdict, view, panic >>

Next ==
    \/ Validate
    \/ FromStr
    \/ TryFromBoxStr
    \/ TryFromString
    \/ TryIntoAccountIdStr
    \/ TryIntoAccountIdString
    \/ RefNew
    \/ RefTryFrom
    \/ NewOrPanic
    \/ Deref
    \/ Borrow
    \/ GetParent
    \/ ToOwned
    \/ FromRef
    \/ Clone
    \/ CowFromAccountId
    \/ CowFromAccountIdRef
    \/ CowFromRef
    \/ FromCow
    \/ TryIntoAccountIdOwned
    \/ TryIntoAccountIdBorrowed
    \/ TryIntoAccountIdRef
    \/ TryIntoAccountIdCow

Spec == Init /\ [][Next]_vars

\* The two validators alone, over the larger set of inputs.
InitValidators ==
    /\ input \in ValidatorInputs
    /\ debug_assertions \in BOOLEAN
    /\ verdict = None
    /\ result = None
    /\ acc = None
    /\ view = None
    /\ cow = None
    /\ panic = None
    /\ other = << >>
    /\ pview = None
    /\ out = None

NextValidators ==
    \/ Validate
    \/ NewOrPanic

SpecValidators == InitValidators /\ [][NextValidators]_vars

----------------------------------------------------------------------------
(* validate and the fallible constructors alone, on every input            *)

\* A step of validate or of a fallible constructor that is given a string.
FallibleStep ==
    \/ Validate
    \/ FromStr
    \/ TryFromBoxStr
    \/ TryFromString
    \/ TryIntoAccountIdStr
    \/ TryIntoAccountIdString
    \/ RefNew
    \/ RefTryFrom

SpecFallible == Init /\ [][FallibleStep]_vars

----------------------------------------------------------------------------
(* The text of an identifier, and parsing it back                          *)

\* A query op returned val.
Answer(op, val) == [op |-> op, val |-> val]

\* What a query leaves alone.
held == << input, debug_assertions, verdict, result, acc, view, cow, panic,
           other, pview >>

\* view.as_str()
AsStr ==
    /\ Running
    /\ view # None
    /\ out' = Some(Answer("as_str", as_str(view[1])))
    /\ UNCHANGED held

\* acc.to_string()
Display ==
    /\ Running
    /\ acc # None
    /\ out' = Some(Answer("to_string", to_string(acc[1])))
    /\ UNCHANGED held

\* String::from(acc.clone())
StringFrom ==
    /\ Running
    /\ acc # None
    /\ out' = Some(Answer("String::from", string_from(clone(acc[1]))))
    /\ UNCHANGED held

\* text.parse::<AccountId>() of the text form returned last
ParseText ==
    /\ Running
    /\ out # None
    /\ out[1].op \in {"to_string", "String::from"}
    /\ result' = Some(Call("text", from_str(out[1].val)))
    /\ UNCHANGED << input, debug_assertions, verdict, acc, view, cow, panic,
                    other, pview, out >>

\* view.get_account_type()
GetAccountType ==
    /\ Running
    /\ view # None
    /\ out' = Some(Answer("get_account_type", get_account_type(view[1])))
    /\ UNCHANGED held

\* view.is_top_level()
IsTopLevel ==
    /\ Running
    /\ view # None
    /\ out' = Some(Answer("is_top_level", is_top_level(view[1])))
    /\ UNCHANGED held

NextRoundTrip ==
    \/ FromStr
    \/ RefNew
    \/ Deref
    \/ AsStr
    \/ Display
    \/ StringFrom
    \/ ParseText

SpecRoundTrip == Init /\ [][NextRoundTrip]_vars

----------------------------------------------------------------------------
(* Two identifiers: parent and child, and comparisons                      *)

InitRelations ==
    /\ input \in RelInputs
    /\ debug_assertions \in BOOLEAN
    /\ verdict = None
    /\ result = None
    /\ acc = None
    /\ view = None
    /\ cow = None
    /\ panic = None
    /\ other \in RelInputs
    /\ pview = None
    /\ out = None

\* AccountIdRef::new(other)
RefNewOther ==
    /\ Running
    /\ LET r == AccountIdRef_new(other)
       IN  pview' = IF r.ok THEN r.value ELSE pview
    /\ UNCHANGED << input, debug_assertions, verdict, result, acc, view, cow,
                    panic, other, out >>

\* pview = view.get_parent_account_id()
ParentOf ==
    /\ Running
    /\ view # None
    /\ LET p == get_parent_account_id(view[1])
       IN  IF p # None /\ new_unvalidated_panics(debug_assertions, p[1])
           THEN /\ panic' = Some("assertion failed: validate(id).is_ok()")
                /\ UNCHANGED << pview, out >>
           ELSE /\ panic' = panic
                /\ pview' = p
                /\ out' = Some(Answer("get_parent_account_id", p))
    /\ UNCHANGED << input, debug_assertions, verdict, result, acc, view, cow,
                    other >>

\* view.is_sub_account_of(pview)
IsSubAccountOf ==
    /\ Running
    /\ view # None
    /\ pview # None
    /\ out' = Some(Answer("is_sub_account_of",
                          [self |-> view[1], parent |-> pview[1],
                           is |-> is_sub_account_of(view[1], pview[1])]))
    /\ UNCHANGED held

\* The operand of type kind with the text s, made from the view v of s when
\* the type is an identifier's: nothing when that view is missing.
Operand(kind, s, v) ==
    IF kind \in StrKinds THEN Some(s)
    ELSE IF v = None THEN None
    ELSE IF kind = "AccountId" THEN Some(to_owned(v[1]))
    ELSE v

\* a == b, b == a, a.partial_cmp(b) and b.partial_cmp(a), for a of type lk
\* made from input and b of type rk made from other
Compare ==
    /\ Running
    /\ \E k \in CmpImpls :
          LET a == Operand(k[1], input, view)
              b == Operand(k[2], other, pview)
          IN  /\ a # None
              /\ b # None
              /\ out' = Some(Answer("compare",
                     [lhs |-> k[1], rhs |-> k[2], a |-> a[1], b |-> b[1],
                      eq |-> eq(k[1], a[1], k[2], b[1]),
                      eq_rev |-> eq(k[2], b[1], k[1], a[1]),
                      cmp |-> partial_cmp(k[1], a[1], k[2], b[1]),
                      cmp_rev |-> partial_cmp(k[2], b[1], k[1], a[1])]))
    /\ UNCHANGED held

NextRelations ==
    \/ RefNew
    \/ RefNewOther
    \/ ParentOf
    \/ IsSubAccountOf
    \/ Compare

SpecRelations == InitRelations /\ [][NextRelations]_vars

----------------------------------------------------------------------------
(* The kind of an identifier                                               *)

InitTypes ==
    /\ input \in TypeInputs
    /\ debug_assertions \in BOOLEAN
    /\ verdict = None
    /\ result = None
    /\ acc = None
    /\ view = None
    /\ cow = None
    /\ panic = None
    /\ other = << >>
    /\ pview = None
    /\ out = None

NextTypes ==
    \/ RefNew
    \/ GetAccountType
    \/ IsTopLevel

SpecTypes == InitTypes /\ [][NextTypes]_vars

----------------------------------------------------------------------------
(* The generators of random identifiers                                    *)

\* `.parse().unwrap_or_else(|_| unreachable!())` of the text that the
\* generator gen made, for a caller that holds no identifier yet
ArbitraryAs(gen, text) ==
    /\ Running
    /\ acc = None
    /\ LET r == from_str(text)
       IN  IF r.ok
           THEN /\ result' = Some(Call(gen, r))
                /\ acc' = r.value
                /\ panic' = panic
           ELSE /\ panic' = Some("internal error: entered unreachable code")
                /\ UNCHANGED << result, acc >>
    /\ UNCHANGED rest
    /\ UNCHANGED << input, debug_assertions, verdict, view, cow >>

\* ArbitraryNearImplicitAccountId::arbitrary_as(u)
ArbNearImplicit ==
    \E pk \in ByteArrays(32) :
        ArbitraryAs("ArbitraryNearImplicitAccountId", near_implicit_text(pk))

\* ArbitraryEthImplicitAccountId::arbitrary_as(u)
ArbEthImplicit ==
    \E hash \in ByteArrays(20) :
        ArbitraryAs("ArbitraryEthImplicitAccountId", eth_implicit_text(hash))

\* ArbitraryNearDeterministicAccountId::arbitrary_as(u)
ArbNearDeterministic ==
    \E hash \in ByteArrays(20) :
        ArbitraryAs("ArbitraryNearDeterministicAccountId",
                    near_deterministic_text(hash))

\* The number of '.' in s.
RECURSIVE Dots(_, _)
Dots(s, i) ==
    IF i > Len(s) THEN 0
    ELSE (IF s[i] = 46 THEN 1 ELSE 0) + Dots(s, i + 1)

\* Arbitrary for AccountId, NamedAccount branch:
\* account_id = arbitrary_subaccount(u, None)?
ArbTopLevel ==
    /\ Running
    /\ acc = None
    /\ \E d \in Draws(2, MAX_LEN) \cup {SystemDraw} :
          LET r == arbitrary_subaccount(None, d)
          IN  /\ result' = Some(Call("None", r))
              /\ acc' = IF r.ok THEN r.value ELSE acc
    /\ pview' = None
    /\ UNCHANGED << input, debug_assertions, verdict, view, cow, panic,
                    other, out >>

\* A call of arbitrary_subaccount(u, Some(&account_id)) that was given the
\* kind of caller by, returned r.
SubaccountOf(by, r) ==
    /\ result' = Some(Call(by, r))
    /\ pview' = acc
    /\ UNCHANGED << input, debug_assertions, verdict, view, cow, other, out >>

\* Mutant: the loop goes on while account_id is shorter than MAX_LEN.
ArbNamedLoop_NoRoom ==
    /\ Running
    /\ acc # None
    /\ Dots(acc[1], 1) < ArbDepth
    /\ StrLen(acc[1]) < MAX_LEN
    /\ \E d \in Draws(1, MAX_LEN) :
          LET r == arbitrary_subaccount(acc, d)
          IN  /\ SubaccountOf("loop", r)
              /\ acc' = IF r.ok THEN r.value ELSE acc
              /\ panic' = panic

\* Arbitrary for AccountId, NamedAccount branch: one turn of
\* while account_id.len() < AccountId::MAX_LEN - 2 && u.arbitrary()? { .. }
\* whose u.arbitrary() read true
ArbNamedLoop ==
    /\ Running
    /\ acc # None
    /\ Dots(acc[1], 1) < ArbDepth
    /\ IF new_unvalidated_panics(debug_assertions, acc[1])
       THEN /\ panic' = Some("assertion failed: validate(id).is_ok()")
            /\ UNCHANGED << input, debug_assertions, verdict, result, acc,
                            view, cow, other, pview, out >>
       ELSE /\ StrLen(acc[1]) < MAX_LEN - 2
            /\ \E d \in Draws(1, MAX_LEN - StrLen(acc[1]) - 1) :
                  LET r == arbitrary_subaccount(acc, d)
                  IN  /\ SubaccountOf("loop", r)
                      /\ acc' = IF r.ok THEN r.value ELSE acc
            /\ panic' = panic

\* ArbitraryNamedAccountId::arbitrary_subaccount(u, Some(&account_id)) called
\* by any other caller, whatever the length of account_id
ArbSubaccount ==
    /\ Running
    /\ acc # None
    /\ \E d \in Draws(1, MAX_LEN - StrLen(acc[1]) - 1) :
          SubaccountOf("Some", arbitrary_subaccount(acc, d))
    /\ UNCHANGED << acc, panic >>

InitNamed ==
    /\ input = << >>
    /\ debug_assertions \in BOOLEAN
    /\ verdict = None
    /\ result = None
    /\ acc = None
    /\ view = None
    /\ cow = None
    /\ panic = None
    /\ other = << >>
    /\ pview = None
    /\ out = None

NextNamed ==
    \/ ArbTopLevel
    \/ ArbNamedLoop
    \/ ArbSubaccount

SpecNamed == InitNamed /\ [][NextNamed]_vars

InitImplicit ==
    /\ input = << >>
    /\ debug_assertions \in BOOLEAN
    /\ verdict = None
    /\ result = None
    /\ acc = None
    /\ view = None
    /\ cow = None
    /\ panic = None
    /\ other = << >>
    /\ pview = None
    /\ out = None

NextImplicit ==
    \/ ArbNearImplicit
    \/ ArbEthImplicit
    \/ ArbNearDeterministic
    \/ Deref
    \/ GetAccountType
    \/ IsTopLevel

SpecImplicit == InitImplicit /\ [][NextImplicit]_vars

\* The inputs of test_arbitrary (account_id_ref.rs, account_id.rs).
ArbitraryCorpus ==
    { << 97, 124, 98, 99, 100 >>,
      << 97, 98, 124, 99, 100, 101 >>,
      << 97, 95, 45, 98 >>,
      << 97, 98, 95, 45, 99 >>,
      << 97 >>,
      << 109, 105, 114, 97, 99, 108, 120, 46, 110, 101, 97, 114 >>,
      [i \in 1..65 |-> 48 + ((i - 1) % 10)] }

\* The strings handed to the truncating generator: the tests' inputs, the
\* inputs of the constructors, and every tail after "ab".
TruncateInputs ==
    ArbitraryCorpus \cup Inputs \cup {<< 97, 98 >> \o t : t \in Tails}

\* A generator of the arbitrary feature returned r (or panicked) for the
\* string input that u.arbitrary::<&str>() gave: the caller holds a view, or
\* the owned AccountId that .into() makes of it.
Generated(of, owned, r) ==
    /\ Running
    /\ IF r.panic # None
       THEN panic' = r.panic /\ UNCHANGED << result, acc, view >>
       ELSE /\ panic' = panic
            /\ result' = Some(Call(of, r.ret[1]))
            /\ IF owned
               THEN /\ acc' = IF r.ret[1].ok
                              THEN Some(to_owned(r.ret[1].value[1]))
                              ELSE acc
                    /\ view' = view
               ELSE /\ view' = IF r.ret[1].ok THEN r.ret[1].value ELSE view
                    /\ acc' = acc
    /\ UNCHANGED rest
    /\ UNCHANGED << input, debug_assertions, verdict, cow >>

\* u.arbitrary::<&AccountIdRef>()
ArbitraryRef == Generated("&AccountIdRef", FALSE, arbitrary_ref(input))

\* u.arbitrary::<AccountId>(): u.arbitrary::<&AccountIdRef>()?.into()
ArbitraryAccountId == Generated("AccountId", TRUE, arbitrary_ref(input))

\* <&AccountIdRef>::arbitrary_take_rest(u)
ArbitraryTakeRest ==
    Generated("take_rest", FALSE,
              [ret |-> Some(arbitrary_take_rest(input)), panic |-> None])

\* <AccountId>::arbitrary_take_rest(u):
\* <&AccountIdRef>::arbitrary_take_rest(u)?.into()
ArbitraryAccountIdTakeRest ==
    Generated("take_rest", TRUE,
              [ret |-> Some(arbitrary_take_rest(input)), panic |-> None])

InitTruncate ==
    /\ input \in TruncateInputs
    /\ debug_assertions \in BOOLEAN
    /\ verdict = None
    /\ result = None
    /\ acc = None
    /\ view = None
    /\ cow = None
    /\ panic = None
    /\ other = << >>
    /\ pview = None
    /\ out = None

NextTruncate ==
    \/ ArbitraryRef
    \/ ArbitraryAccountId
    \/ ArbitraryTakeRest
    \/ ArbitraryAccountIdTakeRest

SpecTruncate == InitTruncate /\ [][NextTruncate]_vars

\* n + 1 labels of the text label, joined by '.'.
RECURSIVE Chain(_, _)
Chain(label, n) ==
    IF n = 0 THEN label ELSE label \o << 46 >> \o Chain(label, n - 1)

\* The identifiers walked up from: the strings of the relations, and chains
\* of up to WalkDepth '.' with labels of one and of two bytes.
WalkInputs ==
    RelInputs \cup Tails
        \cup {Chain(l, n) : l \in {<< 97 >>, << 97, 98 >>}, n \in 0..WalkDepth}

\* The walk to the top: a view made of input, then its parent, the parent's
\* parent, and so on.
InitWalk ==
    /\ input \in WalkInputs
    /\ debug_assertions \in BOOLEAN
    /\ verdict = None
    /\ result = None
    /\ acc = None
    /\ view = None
    /\ cow = None
    /\ panic = None
    /\ other = << >>
    /\ pview = None
    /\ out = None

NextWalk ==
    \/ RefNew
    \/ GetParent

SpecWalk == InitWalk /\ [][NextWalk]_vars

----------------------------------------------------------------------------
(* The grammars the claims speak of, stated apart from the validator       *)

LowerAlnum == (97..122) \cup (48..57)
DashUnderscore == {45, 95}
Dot == {46}

\* The pieces of s from position i on, cut at every character of seps; cur
\* is the piece being read.
RECURSIVE SplitFrom(_, _, _, _)
SplitFrom(s, i, seps, cur) ==
    IF i > Len(s) THEN << cur >>
    ELSE IF s[i] \in seps THEN << cur >> \o SplitFrom(s, i + 1, seps, << >>)
    ELSE SplitFrom(s, i + 1, seps, Append(cur, s[i]))

Split(s, seps) == SplitFrom(s, 1, seps, << >>)

\* [a-z0-9]+
IsAlnumRun(p) == Len(p) >= 1 /\ \A i \in 1..Len(p) : p[i] \in LowerAlnum

\* ([a-z0-9]+[-_])*[a-z0-9]+
MatchesPart(p) ==
    LET runs == Split(p, DashUnderscore)
    IN  \A k \in 1..Len(runs) : IsAlnumRun(runs[k])

\* ^(([a-z0-9]+[-_])*[a-z0-9]+\.)*([a-z0-9]+[-_])*[a-z0-9]+$
MatchesRegex(s) ==
    LET parts == Split(s, Dot)
    IN  \A k \in 1..Len(parts) : MatchesPart(parts[k])

\* label = [a-z0-9]([a-z0-9_-]*[a-z0-9])?
IsSpecLabel(p) ==
    /\ Len(p) >= 1
    /\ p[1] \in LowerAlnum
    /\ p[Len(p)] \in LowerAlnum
    /\ \A i \in 1..Len(p) : p[i] \in LowerAlnum \cup DashUnderscore

\* label ('.' label)*
MatchesSpecGrammar(s) ==
    LET parts == Split(s, Dot)
    IN  \A k \in 1..Len(parts) : IsSpecLabel(parts[k])

\* A label in which no two of '-', '_' are adjacent.
IsSpacedLabel(p) ==
    /\ IsSpecLabel(p)
    /\ \A i \in 1..(Len(p) - 1) :
          ~(p[i] \in DashUnderscore /\ p[i + 1] \in DashUnderscore)

MatchesSpacedGrammar(s) ==
    LET parts == Split(s, Dot)
    IN  \A k \in 1..Len(parts) : IsSpacedLabel(parts[k])

InLengthBounds(s) == StrLen(s) >= MIN_LEN /\ StrLen(s) <= MAX_LEN

Valid(s) == IsOk(validate(s))

----------------------------------------------------------------------------
(* Claims                                                                  *)

\* The texts held by owned AccountId values: the one held directly and the
\* one inside a Cow::Owned.
OwnedTexts ==
    {acc[i] : i \in 1..Len(acc)}
    \cup {cow[i].text : i \in {j \in 1..Len(cow) : cow[j].tag = "Owned"}}

\* C1: after any sequence of the safe public operations, the text of every
\* owned AccountId is accepted by validate.
C1_OwnedAlwaysValid == \A o \in OwnedTexts : Valid(o)

\* C2 (as the spec states it): for a string of 2 to 64 bytes, validate
\* succeeds iff the string is label ('.' label)* with
\* label = [a-z0-9]([a-z0-9_-]*[a-z0-9])?.
C2_SpecGrammar ==
    (verdict # None /\ InLengthBounds(input))
        => (IsOk(verdict[1]) <=> MatchesSpecGrammar(input))

\* C2 (amended): for a string of 2 to 64 bytes, validate succeeds iff the
\* string is label ('.' label)* with labels of that shape in which no two of
\* '-', '_' are adjacent.
C2_SpacedGrammar ==
    (verdict # None /\ InLengthBounds(input))
        => (IsOk(verdict[1]) <=> MatchesSpacedGrammar(input))

\* C2 witness: a string of 64 bytes with '-' and '_' adjacent inside a label
\* was rejected.
C2_Witness ==
    /\ verdict # None
    /\ StrLen(input) = MAX_LEN
    /\ MatchesSpecGrammar(input)
    /\ ~MatchesSpacedGrammar(input)
    /\ verdict[1].kind = "RedundantSeparator"

\* C3: validate returns Ok iff the string has 2 to 64 bytes and matches
\* ^(([a-z0-9]+[-_])*[a-z0-9]+\.)*([a-z0-9]+[-_])*[a-z0-9]+$.
C3_RegexAndLength ==
    verdict # None
        => (IsOk(verdict[1]) <=> (InLengthBounds(input) /\ MatchesRegex(input)))

\* C3 witness: validate accepted a string with a '.', a '-' and a '_'.
C3_Witness ==
    /\ verdict # None
    /\ IsOk(verdict[1])
    /\ \E i, j, k \in 1..Len(input) :
          input[i] = 46 /\ input[j] = 45 /\ input[k] = 95

\* The 0-based code-point indices at which the scan of s meets a violation.
ViolationAt(s, i) ==
    \/ s[i + 1] \notin LowerAlnum \cup DashUnderscore \cup Dot
    \/ /\ s[i + 1] \in DashUnderscore \cup Dot
       /\ (i = 0 \/ s[i] \in DashUnderscore \cup Dot)

Violations(s) == {i \in 0..(Len(s) - 1) : ViolationAt(s, i)}

FirstViolation(s) == CHOOSE i \in Violations(s) : \A j \in Violations(s) : i <= j

\* What C4 says validate reports for a string within the length bounds.
FirstMet(s) ==
    IF Violations(s) # {}
    THEN LET i == FirstViolation(s)
             c == s[i + 1]
         IN  Err(IF c \in DashUnderscore \cup Dot
                 THEN "RedundantSeparator" ELSE "InvalidChar",
                 Some(<< i, c >>))
    ELSE IF s[Len(s)] \in DashUnderscore \cup Dot
    THEN Err("RedundantSeparator", Some(<< Len(s) - 1, s[Len(s)] >>))
    ELSE Ok

\* C4: for a string within the length bounds validate reports the first
\* violation of a left-to-right scan: InvalidChar at the first character
\* outside [a-z0-9-_.], or RedundantSeparator at the first separator that
\* starts the string or follows a separator, whichever comes first; failing
\* both, RedundantSeparator at a final separator.  The documented examples
\* give the documented errors.
C4_FirstViolationWins ==
    verdict # None =>
        /\ InLengthBounds(input) => verdict[1] = FirstMet(input)
        /\ input = << 65, 95, 95, 402, 402, 108, 117, 101, 110, 116, 46 >>
              => verdict[1] = Err("InvalidChar", Some(<< 0, 65 >>))
        /\ input = << 97, 95, 95, 402, 402, 108, 117, 101, 110, 116, 46 >>
              => verdict[1] = Err("RedundantSeparator", Some(<< 2, 95 >>))
        /\ input = << 97, 402, 402, 108, 117, 101, 110, 116, 46 >>
              => verdict[1] = Err("InvalidChar", Some(<< 1, 402 >>))
        /\ input = << 97, 102, 102, 108, 117, 101, 110, 116, 46 >>
              => verdict[1] = Err("RedundantSeparator", Some(<< 8, 46 >>))
        /\ input = << 45, 75, 97, 114, 108, 85, 114, 98, 97, 110, 46,
                      110, 101, 97, 114 >>
              => verdict[1] = Err("RedundantSeparator", Some(<< 0, 45 >>))

\* C4 witness: a string with three violations, a redundant separator before
\* an invalid character before a final separator, got the first reported.
C4_Witness ==
    /\ verdict # None
    /\ InLengthBounds(input)
    /\ Cardinality(Violations(input)) >= 2
    /\ input[Len(input)] \in Dot
    /\ \E i, j \in Violations(input) :
          /\ i < j
          /\ input[i + 1] \in DashUnderscore
          /\ input[j + 1] \notin LowerAlnum \cup DashUnderscore \cup Dot
          /\ verdict[1] = Err("RedundantSeparator", Some(<< i, input[i + 1] >>))

\* C5: the length is checked before any character: a string shorter than 2
\* bytes is TooShort and one longer than 64 bytes is TooLong, whatever it
\* contains.
C5_LengthFirst ==
    verdict # None =>
        /\ StrLen(input) < MIN_LEN => verdict[1] = Err("TooShort", None)
        /\ StrLen(input) > MAX_LEN => verdict[1] = Err("TooLong", None)

\* C5 witness: a string of more than 64 bytes that holds an 'A' and two
\* adjacent separators was reported TooLong.
C5_Witness ==
    /\ verdict # None
    /\ StrLen(input) > MAX_LEN
    /\ \E i \in 1..Len(input) : input[i] = 65
    /\ \E i \in 1..(Len(input) - 1) :
          input[i] \in DashUnderscore \cup Dot
          /\ input[i + 1] \in DashUnderscore \cup Dot
    /\ verdict[1] = Err("TooLong", None)

\* C6: the length bounds count characters: TooShort exactly for fewer than 2
\* characters and TooLong exactly for more than 64 characters, multi-byte
\* characters included.
C6_LengthInCharacters ==
    verdict # None =>
        /\ verdict[1].kind = "TooShort" <=> Len(input) < MIN_LEN
        /\ verdict[1].kind = "TooLong" <=> Len(input) > MAX_LEN

\* C7: an error of validate has one of the four kinds; TooShort and TooLong
\* carry no character; InvalidChar and RedundantSeparator carry Some((i, c))
\* with c the code point of the input at 0-based code-point index i.
C7_ErrorShape ==
    (verdict # None /\ ~IsOk(verdict[1])) =>
        LET e == verdict[1]
        IN  /\ e.kind \in {"TooShort", "TooLong", "InvalidChar",
                           "RedundantSeparator"}
            /\ e.kind \in {"TooShort", "TooLong"} => e.char = None
            /\ e.kind \in {"InvalidChar", "RedundantSeparator"} =>
                  /\ Len(e.char) = 1
                  /\ e.char[1][1] \in 0..(Len(input) - 1)
                  /\ e.char[1][2] = input[e.char[1][1] + 1]

\* C7 witness: a final separator was reported with its index and itself.
C7_Witness ==
    /\ verdict # None
    /\ Len(input) >= 3
    /\ Violations(input) = {}
    /\ verdict[1] =
          Err("RedundantSeparator", Some(<< Len(input) - 1, input[Len(input)] >>))

\* C8: validate_const panics iff validate returns Err.
C8_ConstAgrees ==
    (verdict # None /\ (view # None \/ panic # None))
        => (panic # None <=> ~IsOk(verdict[1]))

\* C8 witness: both validators rejected a string of 2 to 64 bytes that
\* starts with a separator and holds a two-byte character.
C8_Witness ==
    /\ verdict # None
    /\ panic # None
    /\ ~IsOk(verdict[1])
    /\ InLengthBounds(input)
    /\ input[1] \in DashUnderscore \cup Dot
    /\ \E i \in 1..Len(input) : input[i] = 402

\* C9: for a valid identifier, get_parent_account_id returns None or a view
\* that validate accepts, and the debug assertion of new_unvalidated holds.
C9_ParentIsValid ==
    [][(GetParent /\ Valid(view[1]))
          => (panic' = None /\ (view' # None => Valid(view'[1])))]_vars

\* C10: a constructor given the plain string succeeds exactly when validate
\* accepts the string, and otherwise returns the error validate returns and
\* produces no identifier.
C10_ConstructorsValidate ==
    (verdict # None /\ result # None /\ result[1].of = "str") =>
        LET v == verdict[1]
            r == result[1].ret
        IN  /\ r.ok <=> IsOk(v)
            /\ ~IsOk(v) =>
                  /\ r.err = Some(v)
                  /\ r.value = None
                  /\ acc = None
                  /\ view = None
                  /\ cow = None

\* C10 witness: a constructor returned the RedundantSeparator error of
\* validate, with its character.
C10_Witness ==
    /\ verdict # None
    /\ result # None
    /\ result[1].of = "str"
    /\ ~result[1].ret.ok
    /\ result[1].ret.err = Some(verdict[1])
    /\ verdict[1].kind = "RedundantSeparator"
    /\ verdict[1].char # None

\* C11: the text is kept as it is: a parsed identifier holds the string it
\* was parsed from, as_str of it and of its view return that string, and
\* parsing the text form of an identifier gives an identifier equal to it.
C11_RoundTrip ==
    /\ (result # None /\ result[1].of = "str" /\ result[1].ret.ok)
          => (result[1].ret.value = Some(input) /\ (acc # None => acc = Some(input)))
    /\ view # None => view = Some(input)
    /\ (out # None /\ out[1].op = "as_str") => out[1].val = input
    /\ (result # None /\ result[1].of = "text")
          => (result[1].ret.ok /\ result[1].ret.value = acc)

\* C11 witness: the text form of an identifier with a '.', a '-' and a '_'
\* was parsed back.
C11_Witness ==
    /\ result # None
    /\ result[1].of = "text"
    /\ result[1].ret.value = Some(input)
    /\ out # None
    /\ out[1].op = "to_string"
    /\ \E i, j, k \in 1..Len(input) :
          input[i] = 46 /\ input[j] = 45 /\ input[k] = 95

\* The error kinds of ParseAccountError.
ErrorKinds == {"TooLong", "TooShort", "RedundantSeparator", "InvalidChar"}

\* C12: validate and every fallible constructor built on it return Ok or an
\* Err of one of the four kinds for every input string, the empty string,
\* non-ASCII strings and strings of more than 64 bytes included; none panics.
C12_NeverPanics ==
    [][FallibleStep =>
          /\ panic' = None
          /\ verdict' # None => verdict'[1].kind \in {"Ok"} \cup ErrorKinds
          /\ result' # None =>
                \/ result'[1].ret.ok /\ result'[1].ret.value # None
                \/ /\ ~result'[1].ret.ok
                   /\ result'[1].ret.err # None
                   /\ result'[1].ret.err[1].kind \in ErrorKinds
          /\ verdict' # None \/ result' # None]_vars

\* C12 witness: validate and a constructor both returned an error for a
\* string of more than 64 bytes that has a non-ASCII character.
C12_Witness ==
    /\ panic = None
    /\ StrLen(input) > MAX_LEN
    /\ \E i \in 1..Len(input) : input[i] > 127
    /\ verdict # None
    /\ verdict[1].kind = "TooLong"
    /\ result # None
    /\ result[1].of = "str"
    /\ ~result[1].ret.ok

\* C12 witness of the empty string: validate returned TooShort for it.
C12_WitnessEmpty ==
    /\ panic = None
    /\ input = << >>
    /\ verdict = Some(validate(input))
    /\ verdict[1].kind = "TooShort"

\* The characters 0-9 and a-f.
LowerHex == (48..57) \cup (97..102)

\* s is 42 bytes long: "0x" and 40 characters of 0-9a-f.
EthShape(s) ==
    /\ StrLen(s) = 42
    /\ Len(s) = 42
    /\ s[1] = 48
    /\ s[2] = 120
    /\ \A i \in 3..42 : s[i] \in LowerHex

\* s is 64 bytes long, all of them characters of 0-9a-f.
NearShape(s) ==
    /\ StrLen(s) = 64
    /\ Len(s) = 64
    /\ \A i \in 1..64 : s[i] \in LowerHex

\* C13: get_account_type returns EthImplicitAccount exactly for a text of 42
\* bytes that is "0x" and 40 bytes of 0-9a-f, otherwise NearImplicitAccount
\* exactly for a text of 64 bytes of 0-9a-f, otherwise NamedAccount.
C13_AccountType ==
    (out # None /\ out[1].op = "get_account_type") =>
        out[1].val = IF EthShape(view[1]) THEN "EthImplicitAccount"
                     ELSE IF NearShape(view[1]) THEN "NearImplicitAccount"
                     ELSE "NamedAccount"

\* C13 witness: an identifier was classified EthImplicitAccount.
C13_Witness ==
    /\ out # None
    /\ out[1].op = "get_account_type"
    /\ out[1].val = "EthImplicitAccount"
    /\ view = Some(input)
    /\ EthShape(input)

\* C13 witness of the other kinds: a 42-byte identifier without the "0x" was
\* classified NamedAccount.
C13_WitnessNamed ==
    /\ out # None
    /\ out[1].op = "get_account_type"
    /\ out[1].val = "NamedAccount"
    /\ view = Some(input)
    /\ StrLen(input) = 42
    /\ \A i \in 3..Len(input) : input[i] \in LowerHex

\* s is a 64-character string of hex digits of which exactly one, a letter,
\* is written in uppercase.
OneUppercaseHex(s) ==
    /\ Len(s) = 64
    /\ \E k \in 1..64 :
          /\ s[k] \in 65..70
          /\ \A i \in (1..64) \ {k} : s[i] \in LowerHex

\* The 0-based position and the character of the first uppercase letter of s.
FirstUppercase(s) ==
    LET k == CHOOSE k \in 1..Len(s) :
                 /\ s[k] \in 65..90
                 /\ \A i \in 1..(k - 1) : s[i] \notin 65..90
    IN  << k - 1, s[k] >>

\* A 64-character string of lowercase hex digits is valid and a
\* NearImplicitAccount.
LowercaseHexIsNearImplicit ==
    (NearShape(input) /\ result # None) =>
        /\ result[1].ret.ok
        /\ view = Some(input)
        /\ (out # None /\ out[1].op = "get_account_type")
              => out[1].val = "NearImplicitAccount"

\* C14 as stated: a 64-character lowercase hex string is valid and a
\* NearImplicitAccount, and with one digit in uppercase it is still valid and
\* a NamedAccount.
C14_UppercaseStillValid ==
    /\ LowercaseHexIsNearImplicit
    /\ (OneUppercaseHex(input) /\ result # None) =>
          /\ result[1].ret.ok
          /\ view = Some(input)
          /\ (out # None /\ out[1].op = "get_account_type")
                => out[1].val = "NamedAccount"

\* C14, amended: a 64-character lowercase hex string is valid and a
\* NearImplicitAccount; with one digit in uppercase it is rejected as
\* InvalidChar at that digit, so that no identifier holds it, and its text is
\* not of the NEAR-implicit shape.
C14_UppercaseRejected ==
    /\ LowercaseHexIsNearImplicit
    /\ (OneUppercaseHex(input) /\ result # None) =>
          /\ ~result[1].ret.ok
          /\ result[1].ret.err =
                Some(Err("InvalidChar", Some(FirstUppercase(input))))
          /\ view = None
          /\ ~is_near_implicit(input)

\* C14 witness: AccountIdRef::new returned for a 64-character hex string
\* with one uppercase digit.
C14_Witness ==
    /\ OneUppercaseHex(input)
    /\ result # None
    /\ result[1].of = "str"

\* C14 witness of the lowercase string: it was classified.
C14_WitnessLowercase ==
    /\ NearShape(input)
    /\ out # None
    /\ out[1].op = "get_account_type"

\* C16: is_top_level is true exactly when the identifier has no '.' and is
\* not "system"; every NEAR-implicit and ETH-implicit identifier is top-level.
C16_TopLevel ==
    (out # None /\ out[1].op = "is_top_level") =>
        /\ out[1].val = (/\ \A i \in 1..Len(view[1]) : view[1][i] # 46
                         /\ view[1] # << 115, 121, 115, 116, 101, 109 >>)
        /\ (EthShape(view[1]) \/ NearShape(view[1])) => out[1].val
        /\ is_implicit(get_account_type(view[1])) => out[1].val

\* C16 witness: is_top_level returned false for "system".
C16_Witness ==
    /\ out = Some(Answer("is_top_level", FALSE))
    /\ view = Some(<< 115, 121, 115, 116, 101, 109 >>)

\* C16 witness of the implicit identifiers: is_top_level returned true for an
\* ETH-implicit one.
C16_WitnessImplicit ==
    /\ out = Some(Answer("is_top_level", TRUE))
    /\ view # None
    /\ EthShape(view[1])

\* s has no '.'.
NoDot(s) == \A i \in 1..Len(s) : s[i] # 46

\* s is prefix + "." + parent for a prefix without '.'.
DirectChild(s, parent) ==
    \E k \in 0..Len(s) :
        /\ NoDot(SubSeq(s, 1, k))
        /\ s = SubSeq(s, 1, k) \o << 46 >> \o parent

\* C15: is_sub_account_of(parent) is true exactly when self is
\* prefix + "." + parent for a prefix without '.'; it is false of an
\* identifier and itself, of "app.alice.near" and "near", and of "a.etest"
\* and "test".
C15_DirectChild ==
    (out # None /\ out[1].op = "is_sub_account_of") =>
        LET v == out[1].val
        IN  /\ v.is = DirectChild(v.self, v.parent)
            /\ v.self = v.parent => ~v.is
            /\ (v.self = APP_ALICE_NEAR /\ v.parent = NEAR) => ~v.is
            /\ (v.self = A_ETEST /\ v.parent = TEST) => ~v.is

\* C15 witness: "a.etest" was asked about "test".
C15_Witness ==
    /\ out # None
    /\ out[1].op = "is_sub_account_of"
    /\ out[1].val = [self |-> A_ETEST, parent |-> TEST, is |-> FALSE]

\* C15 witness of a direct child: "alice.near" was asked about "near".
C15_WitnessChild ==
    /\ out # None
    /\ out[1].op = "is_sub_account_of"
    /\ out[1].val = [self |-> ALICE_NEAR, parent |-> NEAR, is |-> TRUE]

\* The part of s after its first '.', or nothing when s has no '.'.
AfterFirstDot(s) ==
    IF NoDot(s) THEN None
    ELSE LET d == CHOOSE i \in 1..Len(s) :
                      s[i] = 46 /\ NoDot(SubSeq(s, 1, i - 1))
         IN  Some(SubSeq(s, d + 1, Len(s)))

\* C17: get_parent_account_id of a valid identifier returns None exactly
\* when the identifier has no '.', and otherwise a view of the text after its
\* first '.'.
C17_ParentAfterFirstDot ==
    [][(ParentOf /\ Valid(view[1])) =>
          /\ panic' = None
          /\ out' = Some(Answer("get_parent_account_id",
                                AfterFirstDot(view[1])))
          /\ pview' = AfterFirstDot(view[1])]_vars

\* C17, for the calls that return: what get_parent_account_id returned is
\* the text after the first '.' of the identifier, or None without a '.'.
C17_ReturnedParent ==
    (out # None /\ out[1].op = "get_parent_account_id" /\ view # None) =>
        out[1].val = AfterFirstDot(view[1])

\* C17: the parent of "app.alice.near" was returned.
C17_Returned ==
    /\ view = Some(APP_ALICE_NEAR)
    /\ out = Some(Answer("get_parent_account_id", Some(ALICE_NEAR)))

\* C18: when get_parent_account_id of an identifier returns Some(parent),
\* the identifier is a sub account of parent.
C18_ChildOfParent ==
    (/\ out # None
     /\ out[1].op = "is_sub_account_of"
     /\ get_parent_account_id(out[1].val.self) = Some(out[1].val.parent))
        => out[1].val.is

\* C18 witness: "app.alice.near" was asked about the parent that
\* get_parent_account_id returned for it.
C18_Witness ==
    /\ view = Some(APP_ALICE_NEAR)
    /\ other # ALICE_NEAR
    /\ pview = Some(ALICE_NEAR)
    /\ out # None
    /\ out[1].op = "is_sub_account_of"
    /\ out[1].val = [self |-> APP_ALICE_NEAR, parent |-> ALICE_NEAR,
                     is |-> TRUE]

\* The byte string x comes before y: x is a proper prefix of y, or the first
\* byte in which they differ is smaller in x.
ByteLess(x, y) ==
    \E k \in 1..Len(y) :
        /\ k <= Len(x) + 1
        /\ SubSeq(x, 1, k - 1) = SubSeq(y, 1, k - 1)
        /\ (k = Len(x) + 1 \/ x[k] < y[k])

ByteOrder(x, y) ==
    IF x = y THEN "Equal" ELSE IF ByteLess(x, y) THEN "Less" ELSE "Greater"

Reverse(o) ==
    CASE o = "Less" -> "Greater"
      [] o = "Greater" -> "Less"
      [] o = "Equal" -> "Equal"

\* The operands a caller holds, as pairs of a type and a text.
HeldOperands ==
    (StrKinds \X {input, other})
    \cup (IdKinds \X ({view[i] : i \in 1..Len(view)}
                      \cup {pview[i] : i \in 1..Len(pview)}))

\* C19: every mixed comparison answers as the comparison of the bytes does:
\* equal exactly for equal bytes, ordered as the bytes are, the same in both
\* operand orders, and transitively with any third operand that is held.
C19_ByteComparison ==
    (out # None /\ out[1].op = "compare") =>
        LET v == out[1].val
            x == as_bytes(v.a)
            y == as_bytes(v.b)
        IN  /\ v.eq = (x = y)
            /\ v.cmp = Some(ByteOrder(x, y))
            /\ x # y => (ByteLess(x, y) # ByteLess(y, x))
            /\ v.eq_rev = v.eq
            /\ v.cmp_rev = Some(Reverse(v.cmp[1]))
            /\ \A z \in HeldOperands :
                  (<< v.rhs, z[1] >> \in CmpImpls
                   /\ << v.lhs, z[1] >> \in CmpImpls) =>
                      /\ (v.eq /\ eq(v.rhs, v.b, z[1], z[2]))
                            => eq(v.lhs, v.a, z[1], z[2])
                      /\ (/\ v.cmp = Some("Less")
                          /\ partial_cmp(v.rhs, v.b, z[1], z[2]) = Some("Less"))
                            => partial_cmp(v.lhs, v.a, z[1], z[2]) = Some("Less")

\* C19 witness: an AccountId was compared with a longer String that sorts
\* before it.
C19_Witness ==
    /\ out # None
    /\ out[1].op = "compare"
    /\ out[1].val.lhs = "AccountId"
    /\ out[1].val.rhs = "String"
    /\ out[1].val.a = NEAR
    /\ out[1].val.b = ALICE_NEAR
    /\ out[1].val.cmp = Some("Greater")
    /\ out[1].val.cmp_rev = Some("Less")
    /\ ~out[1].val.eq

\* C19 witness of a chain: "a.etest" sorts before the str "app.alice.near",
\* which sorts before the held view "etest".
C19_WitnessChain ==
    /\ out # None
    /\ out[1].op = "compare"
    /\ out[1].val.a = A_ETEST
    /\ out[1].val.rhs = "str"
    /\ out[1].val.b = APP_ALICE_NEAR
    /\ out[1].val.cmp = Some("Less")
    /\ pview = Some(SubSeq(A_ETEST, 3, 7))

\* C19 witness of equal operands of different types.
C19_WitnessEqual ==
    /\ out # None
    /\ out[1].op = "compare"
    /\ out[1].val.lhs = "&AccountIdRef"
    /\ out[1].val.rhs = "AccountId"
    /\ out[1].val.eq
    /\ out[1].val.cmp = Some("Equal")

\* The call returned Ok of a valid AccountId with the text s.
ReturnedValid(r, s) ==
    /\ r # None
    /\ r[1].ret.ok
    /\ r[1].ret.value = Some(s)
    /\ Valid(s)

\* C20: try_into_account_id of an AccountId, a &AccountId, a &AccountIdRef
\* or a Cow<AccountIdRef> returns Ok of a valid AccountId with the text of
\* its operand, and leaves a borrowed operand as it was.
C20_TryIntoValidated ==
    [][/\ TryIntoAccountIdOwned => ReturnedValid(result', acc[1])
       /\ TryIntoAccountIdBorrowed =>
             (ReturnedValid(result', acc[1]) /\ acc' = acc)
       /\ TryIntoAccountIdRef =>
             (ReturnedValid(result', view[1]) /\ view' = view)
       /\ TryIntoAccountIdCow => ReturnedValid(result', cow[1].text)]_vars

\* C20, for valid operands: the same, of operands whose text validate
\* accepts.
C20_TryIntoOfValid ==
    [][/\ (TryIntoAccountIdOwned /\ Valid(acc[1]))
             => ReturnedValid(result', acc[1])
       /\ (TryIntoAccountIdBorrowed /\ Valid(acc[1]))
             => (ReturnedValid(result', acc[1]) /\ acc' = acc)
       /\ (TryIntoAccountIdRef /\ Valid(view[1]))
             => (ReturnedValid(result', view[1]) /\ view' = view)
       /\ (TryIntoAccountIdCow /\ Valid(cow[1].text))
             => ReturnedValid(result', cow[1].text)]_vars

\* The generators of implicit identifiers.
ImplicitGenerators ==
    {"ArbitraryNearImplicitAccountId", "ArbitraryEthImplicitAccountId"}

\* C21: the text of 64 lowercase hex digits, and "0x" with 40 of them, that
\* the generators of implicit identifiers make parses, and is classified
\* NearImplicitAccount and EthImplicitAccount; unreachable!() is not reached.
C21_ImplicitGenerated ==
    /\ panic = None
    /\ (result # None /\ result[1].of \in ImplicitGenerators) =>
          LET r == result[1].ret
          IN  /\ r.ok
              /\ IF result[1].of = "ArbitraryNearImplicitAccountId"
                 THEN /\ NearShape(r.value[1])
                      /\ get_account_type(r.value[1]) = "NearImplicitAccount"
                 ELSE /\ EthShape(r.value[1])
                      /\ get_account_type(r.value[1]) = "EthImplicitAccount"
    /\ (out # None /\ out[1].op = "get_account_type") =>
          /\ NearShape(view[1]) => out[1].val = "NearImplicitAccount"
          /\ EthShape(view[1]) => out[1].val = "EthImplicitAccount"
    /\ (out # None /\ out[1].op = "is_top_level"
        /\ (NearShape(view[1]) \/ EthShape(view[1]))) => out[1].val

\* C21 witness: a generated identifier with the digits '9', 'a' and 'f' was
\* classified EthImplicitAccount.
C21_Witness ==
    /\ result # None
    /\ result[1].of = "ArbitraryEthImplicitAccountId"
    /\ view = result[1].ret.value
    /\ \E i, j, k \in 3..42 :
          view[1][i] = 57 /\ view[1][j] = 97 /\ view[1][k] = 102
    /\ out = Some(Answer("get_account_type", "EthImplicitAccount"))

\* C21 witness of the other generator: a generated identifier was
\* classified NearImplicitAccount.
C21_WitnessNear ==
    /\ result # None
    /\ result[1].of = "ArbitraryNearImplicitAccountId"
    /\ view = result[1].ret.value
    /\ out = Some(Answer("get_account_type", "NearImplicitAccount"))

\* s is "0s" and 40 characters of 0-9a-f.
DeterministicShape(s) ==
    /\ Len(s) = 42
    /\ s[1] = 48
    /\ s[2] = 115
    /\ \A i \in 3..42 : s[i] \in LowerHex

\* C22: the text "0s" with 40 lowercase hex digits that
\* ArbitraryNearDeterministicAccountId makes parses, and get_account_type
\* returns NearDeterministicAccount for it.
C22_NearDeterministic ==
    /\ (result # None
        /\ result[1].of = "ArbitraryNearDeterministicAccountId") =>
          /\ result[1].ret.ok
          /\ DeterministicShape(result[1].ret.value[1])
    /\ (out # None /\ out[1].op = "get_account_type"
        /\ DeterministicShape(view[1])) =>
          out[1].val = "NearDeterministicAccount"

\* C22, what the code does: the text parses and is a NamedAccount.
C22_DeterministicIsNamed ==
    /\ (result # None
        /\ result[1].of = "ArbitraryNearDeterministicAccountId") =>
          /\ result[1].ret.ok
          /\ DeterministicShape(result[1].ret.value[1])
    /\ (out # None /\ out[1].op = "get_account_type"
        /\ DeterministicShape(view[1])) =>
          out[1].val = "NamedAccount"

\* C22: a generated "0s" identifier was classified.
C22_Classified ==
    /\ result # None
    /\ result[1].of = "ArbitraryNearDeterministicAccountId"
    /\ view = result[1].ret.value
    /\ out # None
    /\ out[1].op = "get_account_type"

\* child is label + "." + parent for a label that starts and ends with
\* [a-z0-9] and has no two of '-', '_' in a row.
LabelledChild(child, parent) ==
    \E k \in 1..Len(child) :
        /\ IsSpacedLabel(SubSeq(child, 1, k))
        /\ child = SubSeq(child, 1, k) \o << 46 >> \o parent

\* C23: arbitrary_subaccount with parent Some(p) returns an error when p is
\* 63 bytes or longer; for a shorter valid p it returns an identifier that
\* validate accepts, of at most 64 bytes, that is a label, a '.', and p, and
\* is a direct sub account of p.
C23_SubaccountGenerated ==
    (result # None /\ result[1].of \in {"loop", "Some"}) =>
        LET p == pview[1]
            r == result[1].ret
        IN  IF StrLen(p) >= 63 THEN ~r.ok
            ELSE Valid(p) =>
                    /\ r.ok
                    /\ Valid(r.value[1])
                    /\ StrLen(r.value[1]) <= 64
                    /\ LabelledChild(r.value[1], p)
                    /\ is_sub_account_of(r.value[1], p)

\* C23 witness: a sub account of 64 bytes with a '-' in its label was
\* returned.
C23_Witness ==
    /\ result # None
    /\ result[1].of = "Some"
    /\ result[1].ret.ok
    /\ StrLen(result[1].ret.value[1]) = 64
    /\ \E i \in 1..64 : result[1].ret.value[1][i] = 45
    /\ pview # None
    /\ StrLen(pview[1]) < 62

\* C23 witness of the error: the parent was 63 bytes long.
C23_WitnessTooLong ==
    /\ result # None
    /\ result[1].of = "Some"
    /\ ~result[1].ret.ok
    /\ pview # None
    /\ StrLen(pview[1]) = 63

\* C24: arbitrary_subaccount with parent None returns an identifier for
\* which is_top_level() is true.
C24_TopLevelGenerated ==
    (result # None /\ result[1].of = "None") =>
        /\ result[1].ret.ok
        /\ is_top_level(result[1].ret.value[1])

\* C24, what the code does: the returned identifier has no '.'.
C24_NoDotGenerated ==
    (result # None /\ result[1].of = "None") =>
        /\ result[1].ret.ok
        /\ Valid(result[1].ret.value[1])
        /\ NoDot(result[1].ret.value[1])

\* C25: in the loop of the NamedAccount branch account_id is a valid
\* identifier of at most 64 bytes, every call of arbitrary_subaccount has a
\* parent shorter than 63 bytes, and none returns an error.
C25_LoopKeepsRoom ==
    /\ panic = None
    /\ acc # None => (Valid(acc[1]) /\ StrLen(acc[1]) <= 64)
    /\ (result # None /\ result[1].of = "loop") =>
          /\ StrLen(pview[1]) < 63
          /\ result[1].ret.ok
          /\ acc = result[1].ret.value

\* C25 witness: the second turn of the loop made an identifier of 64 bytes.
C25_Witness ==
    /\ result # None
    /\ result[1].of = "loop"
    /\ acc # None
    /\ Dots(acc[1], 1) = 2
    /\ StrLen(acc[1]) = 64

\* The lengths, in characters, of the prefixes of s that validate accepts.
ValidPrefixes(s) == {k \in 0..Len(s) : Valid(SubSeq(s, 1, k))}

\* The longest prefix of s that validate accepts, when there is one.
LongestValidPrefix(s) ==
    LET lens == ValidPrefixes(s)
    IN  SubSeq(s, 1, CHOOSE k \in lens : \A j \in lens : j <= k)

\* What the truncating generator is to return for the string s.
TruncateExpected(s) ==
    IF StrLen(s) < 2 \/ StrLen(s) > 64 THEN IncorrectFormat
    ELSE IF \A k \in 0..Len(s) : ~Valid(SubSeq(s, 1, k)) THEN IncorrectFormat
    ELSE RetOk(LongestValidPrefix(s))

TruncatingGenerators == {"&AccountIdRef", "AccountId"}

\* C26: the truncating generator, for &AccountIdRef and for AccountId,
\* returns an error when the string is shorter than 2 or longer than 64
\* bytes, and otherwise the longest prefix of the string that validate
\* accepts, or an error when no prefix is valid; it does not panic.
C26_LongestValidPrefix ==
    /\ panic = None
    /\ (result # None /\ result[1].of \in TruncatingGenerators) =>
          /\ result[1].ret = TruncateExpected(input)
          /\ result[1].ret.ok =>
                IF result[1].of = "AccountId"
                THEN acc = result[1].ret.value
                ELSE view = result[1].ret.value

\* C26 witness: "ab|cde" was cut to "ab".
C26_Witness ==
    /\ input = << 97, 98, 124, 99, 100, 101 >>
    /\ result # None
    /\ result[1].of \in TruncatingGenerators
    /\ result[1].ret = RetOk(<< 97, 98 >>)

\* C26 witness of the error after cutting: "a_-b" has no valid prefix.
C26_WitnessNoPrefix ==
    /\ input = << 97, 95, 45, 98 >>
    /\ result # None
    /\ result[1].of \in TruncatingGenerators
    /\ result[1].ret = IncorrectFormat

\* C26 witness of the length: a string of 65 bytes whose first 64 bytes
\* are an identifier gave an error.
C26_WitnessTooLong ==
    /\ Len(input) = 65
    /\ StrLen(input) = 65
    /\ Valid(SubSeq(input, 1, 64))
    /\ result # None
    /\ result[1].of \in TruncatingGenerators
    /\ result[1].ret = IncorrectFormat

\* C26 witness of two cuts: a string of more than one byte past its longest
\* valid prefix, which is not what the first error position leaves.
C26_WitnessTwoCuts ==
    /\ result # None
    /\ result[1].of = "AccountId"
    /\ result[1].ret.ok
    /\ LET r == validate(input)
       IN  /\ r.char # None
           /\ result[1].ret.value[1] # SubSeq(input, 1, r.char[1][1])

\* One of the ASCII characters a-z, 0-9, '-', '_', '.'.
GrammarChar(c) ==
    (c >= 97 /\ c <= 122) \/ (c >= 48 /\ c <= 57) \/ c \in {45, 95, 46}

\* C27: when validate reports a position (i, c), c is the character at
\* code-point index i, every character before it is one of a-z, 0-9, '-',
\* '_', '.', so i is the byte offset of c, a character boundary, and the
\* slice [..i] is strictly shorter than the input.
C27_PositionIsByteOffset ==
    (verdict # None /\ verdict[1].char # None) =>
        LET i == verdict[1].char[1][1]
            c == verdict[1].char[1][2]
        IN  /\ i >= 0
            /\ i < Len(input)
            /\ input[i + 1] = c
            /\ \A j \in 1..i : GrammarChar(input[j])
            /\ StrLen(SubSeq(input, 1, i)) = i
            /\ is_char_boundary(input, i)
            /\ StrLen(slice_to(input, i)) < StrLen(input)

\* C27 witness: a position behind the first character, reported for a
\* character of two bytes that has more of them after it.
C27_Witness ==
    /\ verdict # None
    /\ verdict[1].char # None
    /\ verdict[1].char[1][1] > 0
    /\ verdict[1].char[1][2] = 402
    /\ verdict[1].char[1][1] + 1 < Len(input)
    /\ StrLen(input) > Len(input)

\* C27 witness of the check after the loop: the position of a trailing
\* separator.
C27_WitnessTrailing ==
    /\ verdict # None
    /\ verdict[1].kind = "RedundantSeparator"
    /\ verdict[1].char # None
    /\ verdict[1].char[1][1] = Len(input) - 1
    /\ Len(input) > 2
    /\ ~IsSeparator(input[Len(input) - 1])

\* C28: for valid identifiers a and p, a.is_sub_account_of(p) implies that
\* a.get_parent_account_id() returns Some view whose text equals p; so p is
\* the only direct parent of a, no identifier is a sub account of itself,
\* and p is then not a sub account of a.
C28_ParentOfChild ==
    (out # None /\ out[1].op = "is_sub_account_of"
        /\ Valid(out[1].val.self) /\ Valid(out[1].val.parent)) =>
        LET a == out[1].val.self
            p == out[1].val.parent
        IN  /\ a = p => ~out[1].val.is
            /\ out[1].val.is =>
                  /\ get_parent_account_id(a) # None
                  /\ ~new_unvalidated_panics(debug_assertions,
                                             get_parent_account_id(a)[1])
                  /\ str_eq(as_str(get_parent_account_id(a)[1]), as_str(p))
                  /\ ~is_sub_account_of(p, a)
                  /\ \A q \in RelInputs :
                        (Valid(q) /\ is_sub_account_of(a, q)) => q = p

\* C28 witness: "alice.near" was found to be a sub account of "near", both
\* made by AccountIdRef::new.
C28_Witness ==
    /\ out # None
    /\ out[1].op = "is_sub_account_of"
    /\ view = Some(ALICE_NEAR)
    /\ other = NEAR
    /\ pview = Some(NEAR)
    /\ out[1].val = [self |-> ALICE_NEAR, parent |-> NEAR, is |-> TRUE]

\* C28 witness of the irreflexive case: an identifier was asked about
\* itself.
C28_WitnessSelf ==
    /\ out # None
    /\ out[1].op = "is_sub_account_of"
    /\ Valid(out[1].val.self)
    /\ out[1].val.self = out[1].val.parent
    /\ ~out[1].val.is

\* C28 witness of the asymmetric case: "near" was asked about its sub
\* account "alice.near".
C28_WitnessReverse ==
    /\ out # None
    /\ out[1].op = "is_sub_account_of"
    /\ out[1].val = [self |-> NEAR, parent |-> ALICE_NEAR, is |-> FALSE]

\* The number of calls of get_parent_account_id that return a parent when
\* walking up from s, before the call that returns None.
RECURSIVE ParentSteps(_)
ParentSteps(s) ==
    LET p == get_parent_account_id(s)
    IN  IF p = None THEN 0 ELSE 1 + ParentSteps(p[1])

\* What one step of the walk up from the text s to the Option p is to be:
\* None exactly when s has no '.', otherwise a strictly shorter suffix of s
\* with one '.' fewer.
WalkStep(s, p) ==
    /\ p = None <=> Dots(s, 1) = 0
    /\ p # None =>
          /\ StrLen(p[1]) < StrLen(s)
          /\ strip_suffix(s, p[1]) # None
          /\ Dots(p[1], 1) = Dots(s, 1) - 1

\* C29: walking up from a valid identifier with get_parent_account_id,
\* every call returns, a strictly shorter suffix with one '.' fewer or None
\* when there is no '.' left, so None is reached after as many parents as
\* the identifier has '.'.
C29_WalkToNone ==
    [][GetParent =>
          /\ panic' = None
          /\ WalkStep(view[1], view')
          /\ ParentSteps(view[1]) = Dots(view[1], 1)]_vars

\* C29, what the code does when the call returns: the step is as claimed.
C29_ReturnedStep ==
    [][(GetParent /\ panic' = None) =>
          /\ WalkStep(view[1], view')
          /\ ParentSteps(view[1]) = Dots(view[1], 1)]_vars

\* C29, the walk to the top of "ab.ab.ab.ab.ab": None behind "ab".
C29_WalkedToTop ==
    /\ input = Chain(<< 97, 98 >>, 4)
    /\ result # None
    /\ view = None
    /\ panic = None

\* get_account_type with its two checks made in the other order.
AccountTypeNearFirst(s) ==
    IF is_near_implicit(s) THEN "NearImplicitAccount"
    ELSE IF is_eth_implicit(s) THEN "EthImplicitAccount"
    ELSE "NamedAccount"

\* C30: no string satisfies both is_eth_implicit and is_near_implicit, so
\* get_account_type returns what it would with the two checks in the other
\* order, and AccountType::is_implicit() of what it returns is true exactly
\* when one of the two checks holds.
C30_ImplicitExclusive ==
    /\ ~(is_eth_implicit(input) /\ is_near_implicit(input))
    /\ (out # None /\ out[1].op = "get_account_type") =>
          /\ out[1].val = AccountTypeNearFirst(as_str(view[1]))
          /\ is_implicit(out[1].val) <=>
                (is_eth_implicit(as_str(view[1]))
                    \/ is_near_implicit(as_str(view[1])))

\* C30 witness: an identifier that passes is_eth_implicit alone was
\* classified, and the type is implicit.
C30_Witness ==
    /\ out # None
    /\ out[1].op = "get_account_type"
    /\ is_eth_implicit(view[1])
    /\ ~is_near_implicit(view[1])
    /\ is_implicit(out[1].val)

\* C30 witness of the other check: an identifier that passes
\* is_near_implicit alone was classified, and the type is implicit.
C30_WitnessNear ==
    /\ out # None
    /\ out[1].op = "get_account_type"
    /\ is_near_implicit(view[1])
    /\ ~is_eth_implicit(view[1])
    /\ is_implicit(out[1].val)

\* C30 witness of neither: 64 bytes that begin with "0x" are a named
\* account, not implicit.
C30_WitnessNeither ==
    /\ out # None
    /\ out[1].op = "get_account_type"
    /\ StrLen(view[1]) = 64
    /\ starts_with(view[1], << 48, 120 >>)
    /\ ~is_implicit(out[1].val)

\* What arbitrary_take_rest leaves: the whole string as an identifier when
\* validate accepts it, held as a view or as an owned AccountId, and an
\* error otherwise; nothing is cut.
TakeRestWhole ==
    (result # None /\ result[1].of = "take_rest") =>
        /\ result[1].ret.ok <=> Valid(input)
        /\ result[1].ret.ok =>
              /\ result[1].ret.value = Some(input)
              /\ acc = Some(input) \/ view = Some(input)
        /\ ~result[1].ret.ok => result[1].ret = IncorrectFormat

\* arbitrary_take_rest of AccountId gave the owned "miraclx.near" and no
\* view was made.
TakeRestOwned ==
    /\ input = << 109, 105, 114, 97, 99, 108, 120, 46, 110, 101, 97, 114 >>
    /\ result # None
    /\ result[1].of = "take_rest"
    /\ acc = Some(input)
    /\ view = None

============================================================================
